---------------------------- MODULE Spec2Model ----------------------------
(***************************************************************************)
(* MedDocValidate: the prompt-construction and response-normalization      *)
(* pipeline of FDAComplianceValidator (validator.py) and the validation    *)
(* session of the Streamlit front end (app.py).                            *)
(***************************************************************************)
EXTENDS Integers, Sequences, FiniteSets, TLC

VARIABLES
    pc,                 \* which operation has been applied to the inputs
    regulation,         \* argument: the regulation identifier
    document_text,      \* argument: the extracted document text
    detail_level,       \* argument: "Basic" | "Standard" | "Comprehensive"
    reg_requirements,   \* build_enhanced_prompt's local / the lookup's result
    prompt,             \* the prompt returned by build_enhanced_prompt
    raw_response,       \* message.content[0].text, as the provider sent it
    stripped_response,  \* response_text as json.loads receives it (line 402)
    validation_results, \* the outcome of validate_document's parse step
    formatted_output,   \* the outcome of format_results_for_display
    uploaded_file,      \* the file uploader's value in the last script run
    session_state,      \* st.session_state
    run,                \* what the last script run did and reported
    download_json       \* the data of the "Download JSON Data" button

promptVars == <<regulation, document_text, detail_level, reg_requirements, prompt>>
responseVars == <<raw_response, stripped_response, validation_results, formatted_output>>
sessionVars == <<uploaded_file, session_state, run, download_json>>
vars == <<pc, promptVars, responseVars, sessionVars>>

\* ---------------------------------------------------------------------
\* CFR_REQUIREMENTS (validator.py 35-214): the catalog as the list of its
\* items() in source order; each subsections dict likewise. A Python str
\* is the sequence of its characters, each a one-character string.
\* ---------------------------------------------------------------------
\* '21 CFR Part 820.70 - Production and Process Controls'
Reg_820_70 ==
  [ reg_key |-> <<"2","1"," ","C","F","R"," ","P","a","r","t"," ","8","2","0",".","7","0"," ","-"," ","P","r","o","d","u","c","t","i","o","n"," ","a","n","d"," ","P","r","o","c","e","s","s"," ","C","o","n","t","r","o","l","s">>,
    reg_data |->
      [ citation |-> <<"2","1"," ","C","F","R"," ","8","2","0",".","7","0">>,
        title |-> <<"P","r","o","d","u","c","t","i","o","n"," ","a","n","d"," ","P","r","o","c","e","s","s"," ","C","o","n","t","r","o","l","s">>,
        subsections |-> <<
        [ subsection |-> <<"8","2","0",".","7","0","(","a",")">>,
          details |->
            [ requirement |-> <<"G","e","n","e","r","a","l"," ","-"," ","W","r","i","t","t","e","n"," ","p","r","o","c","e","d","u","r","e","s"," ","f","o","r"," ","p","r","o","d","u","c","t","i","o","n"," ","a","n","d"," ","p","r","o","c","e","s","s"," ","c","o","n","t","r","o","l","s">>,
              key_elements |-> <<
                <<"W","r","i","t","t","e","n"," ","p","r","o","c","e","d","u","r","e","s"," ","d","e","f","i","n","i","n","g"," ","a","n","d"," ","c","o","n","t","r","o","l","l","i","n","g"," ","p","r","o","d","u","c","t","i","o","n"," ","p","r","o","c","e","s","s","e","s">>,
                <<"P","r","o","c","e","d","u","r","e","s"," ","e","n","s","u","r","e"," ","d","e","v","i","c","e","s"," ","c","o","n","f","o","r","m"," ","t","o"," ","s","p","e","c","i","f","i","c","a","t","i","o","n","s">>,
                <<"M","o","n","i","t","o","r","i","n","g"," ","a","n","d"," ","c","o","n","t","r","o","l"," ","o","f"," ","p","r","o","c","e","s","s"," ","p","a","r","a","m","e","t","e","r","s">>,
                <<"A","d","h","e","r","e","n","c","e"," ","t","o"," ","p","r","o","c","e","d","u","r","e","s"," ","i","s"," ","e","n","s","u","r","e","d">> >>,
              critical_keywords |-> <<
                <<"p","r","o","c","e","d","u","r","e","s">>,
                <<"p","r","o","d","u","c","t","i","o","n">>,
                <<"s","p","e","c","i","f","i","c","a","t","i","o","n","s">>,
                <<"m","o","n","i","t","o","r","i","n","g">>,
                <<"c","o","n","t","r","o","l">> >> ] ],
        [ subsection |-> <<"8","2","0",".","7","0","(","b",")">>,
          details |->
            [ requirement |-> <<"P","r","o","d","u","c","t","i","o","n"," ","a","n","d"," ","p","r","o","c","e","s","s"," ","c","h","a","n","g","e","s">>,
              key_elements |-> <<
                <<"C","h","a","n","g","e","s"," ","r","e","v","i","e","w","e","d"," ","a","n","d"," ","a","p","p","r","o","v","e","d"," ","b","e","f","o","r","e"," ","i","m","p","l","e","m","e","n","t","a","t","i","o","n">>,
                <<"I","m","p","a","c","t"," ","o","n"," ","d","e","v","i","c","e"," ","s","p","e","c","i","f","i","c","a","t","i","o","n","s"," ","a","s","s","e","s","s","e","d">>,
                <<"D","o","c","u","m","e","n","t","a","t","i","o","n"," ","o","f"," ","c","h","a","n","g","e"," ","c","o","n","t","r","o","l"," ","p","r","o","c","e","s","s">>,
                <<"V","a","l","i","d","a","t","i","o","n"," ","w","h","e","n"," ","r","e","q","u","i","r","e","d">> >>,
              critical_keywords |-> <<
                <<"c","h","a","n","g","e"," ","c","o","n","t","r","o","l">>,
                <<"a","p","p","r","o","v","a","l">>,
                <<"v","a","l","i","d","a","t","i","o","n">>,
                <<"i","m","p","a","c","t"," ","a","s","s","e","s","s","m","e","n","t">> >> ] ],
        [ subsection |-> <<"8","2","0",".","7","0","(","c",")">>,
          details |->
            [ requirement |-> <<"E","n","v","i","r","o","n","m","e","n","t","a","l"," ","c","o","n","t","r","o","l">>,
              key_elements |-> <<
                <<"E","n","v","i","r","o","n","m","e","n","t","a","l"," ","c","o","n","d","i","t","i","o","n","s"," ","c","o","n","t","r","o","l","l","e","d"," ","w","h","e","r","e"," ","n","e","c","e","s","s","a","r","y">>,
                <<"M","o","n","i","t","o","r","i","n","g"," ","p","r","o","c","e","d","u","r","e","s"," ","e","s","t","a","b","l","i","s","h","e","d">>,
                <<"A","c","t","i","o","n"," ","l","i","m","i","t","s"," ","d","e","f","i","n","e","d">>,
                <<"D","o","c","u","m","e","n","t","a","t","i","o","n"," ","o","f"," ","e","n","v","i","r","o","n","m","e","n","t","a","l"," ","c","o","n","t","r","o","l","s">> >>,
              critical_keywords |-> <<
                <<"e","n","v","i","r","o","n","m","e","n","t","a","l"," ","c","o","n","t","r","o","l">>,
                <<"m","o","n","i","t","o","r","i","n","g">>,
                <<"a","c","t","i","o","n"," ","l","i","m","i","t","s">>,
                <<"c","l","e","a","n","r","o","o","m">> >> ] ],
        [ subsection |-> <<"8","2","0",".","7","0","(","d",")">>,
          details |->
            [ requirement |-> <<"P","e","r","s","o","n","n","e","l">>,
              key_elements |-> <<
                <<"P","e","r","s","o","n","n","e","l"," ","q","u","a","l","i","f","i","e","d"," ","f","o","r"," ","a","s","s","i","g","n","e","d"," ","t","a","s","k","s">>,
                <<"T","r","a","i","n","i","n","g"," ","d","o","c","u","m","e","n","t","e","d">>,
                <<"C","o","m","p","e","t","e","n","c","y"," ","d","e","m","o","n","s","t","r","a","t","e","d">>,
                <<"H","y","g","i","e","n","e"," ","p","r","a","c","t","i","c","e","s"," ","e","s","t","a","b","l","i","s","h","e","d">> >>,
              critical_keywords |-> <<
                <<"t","r","a","i","n","i","n","g">>,
                <<"q","u","a","l","i","f","i","c","a","t","i","o","n">>,
                <<"c","o","m","p","e","t","e","n","c","y">>,
                <<"h","y","g","i","e","n","e">> >> ] ],
        [ subsection |-> <<"8","2","0",".","7","0","(","e",")">>,
          details |->
            [ requirement |-> <<"C","o","n","t","a","m","i","n","a","t","i","o","n"," ","c","o","n","t","r","o","l">>,
              key_elements |-> <<
                <<"P","r","o","c","e","d","u","r","e","s"," ","t","o"," ","p","r","e","v","e","n","t"," ","c","o","n","t","a","m","i","n","a","t","i","o","n">>,
                <<"C","l","e","a","n","i","n","g"," ","a","n","d"," ","s","a","n","i","t","i","z","a","t","i","o","n"," ","p","r","o","t","o","c","o","l","s">>,
                <<"S","t","e","r","i","l","i","t","y"," ","m","a","i","n","t","e","n","a","n","c","e"," ","w","h","e","r","e"," ","r","e","q","u","i","r","e","d">>,
                <<"D","o","c","u","m","e","n","t","a","t","i","o","n"," ","o","f"," ","c","o","n","t","a","m","i","n","a","t","i","o","n"," ","c","o","n","t","r","o","l">> >>,
              critical_keywords |-> <<
                <<"c","o","n","t","a","m","i","n","a","t","i","o","n">>,
                <<"c","l","e","a","n","i","n","g">>,
                <<"s","a","n","i","t","i","z","a","t","i","o","n">>,
                <<"s","t","e","r","i","l","i","t","y">> >> ] ],
        [ subsection |-> <<"8","2","0",".","7","0","(","f",")">>,
          details |->
            [ requirement |-> <<"B","u","i","l","d","i","n","g","s">>,
              key_elements |-> <<
                <<"S","u","i","t","a","b","l","e"," ","b","u","i","l","d","i","n","g"," ","d","e","s","i","g","n"," ","f","o","r"," ","o","p","e","r","a","t","i","o","n","s">>,
                <<"S","p","a","c","e"," ","a","d","e","q","u","a","t","e"," ","f","o","r"," ","d","e","v","i","c","e"," ","m","a","n","u","f","a","c","t","u","r","i","n","g">>,
                <<"O","r","d","e","r","l","y"," ","s","t","o","r","a","g","e"," ","a","n","d"," ","h","a","n","d","l","i","n","g">>,
                <<"P","r","o","p","e","r"," ","m","a","i","n","t","e","n","a","n","c","e"," ","o","f"," ","f","a","c","i","l","i","t","i","e","s">> >>,
              critical_keywords |-> <<
                <<"f","a","c","i","l","i","t","i","e","s">>,
                <<"b","u","i","l","d","i","n","g">>,
                <<"s","p","a","c","e">>,
                <<"s","t","o","r","a","g","e">> >> ] ],
        [ subsection |-> <<"8","2","0",".","7","0","(","g",")">>,
          details |->
            [ requirement |-> <<"E","q","u","i","p","m","e","n","t">>,
              key_elements |-> <<
                <<"E","q","u","i","p","m","e","n","t"," ","s","u","i","t","a","b","l","e"," ","f","o","r"," ","i","n","t","e","n","d","e","d"," ","u","s","e">>,
                <<"C","a","l","i","b","r","a","t","i","o","n"," ","a","n","d"," ","m","a","i","n","t","e","n","a","n","c","e"," ","s","c","h","e","d","u","l","e","s">>,
                <<"A","d","j","u","s","t","m","e","n","t"," ","a","n","d"," ","i","n","s","p","e","c","t","i","o","n"," ","d","o","c","u","m","e","n","t","e","d">>,
                <<"E","q","u","i","p","m","e","n","t"," ","q","u","a","l","i","f","i","c","a","t","i","o","n"," ","w","h","e","r","e"," ","n","e","e","d","e","d">> >>,
              critical_keywords |-> <<
                <<"e","q","u","i","p","m","e","n","t">>,
                <<"c","a","l","i","b","r","a","t","i","o","n">>,
                <<"m","a","i","n","t","e","n","a","n","c","e">>,
                <<"q","u","a","l","i","f","i","c","a","t","i","o","n">> >> ] ],
        [ subsection |-> <<"8","2","0",".","7","0","(","h",")">>,
          details |->
            [ requirement |-> <<"M","a","n","u","f","a","c","t","u","r","i","n","g"," ","m","a","t","e","r","i","a","l">>,
              key_elements |-> <<
                <<"M","a","t","e","r","i","a","l"," ","h","a","n","d","l","i","n","g"," ","p","r","o","c","e","d","u","r","e","s"," ","e","s","t","a","b","l","i","s","h","e","d">>,
                <<"M","a","t","e","r","i","a","l"," ","i","d","e","n","t","i","f","i","e","d"," ","a","n","d"," ","c","o","n","t","r","o","l","l","e","d">>,
                <<"S","t","o","r","a","g","e"," ","c","o","n","d","i","t","i","o","n","s"," ","a","p","p","r","o","p","r","i","a","t","e">>,
                <<"M","a","t","e","r","i","a","l"," ","t","r","a","c","e","a","b","i","l","i","t","y"," ","m","a","i","n","t","a","i","n","e","d">> >>,
              critical_keywords |-> <<
                <<"m","a","t","e","r","i","a","l","s">>,
                <<"h","a","n","d","l","i","n","g">>,
                <<"s","t","o","r","a","g","e">>,
                <<"t","r","a","c","e","a","b","i","l","i","t","y">> >> ] ],
        [ subsection |-> <<"8","2","0",".","7","0","(","i",")">>,
          details |->
            [ requirement |-> <<"A","u","t","o","m","a","t","e","d"," ","p","r","o","c","e","s","s","e","s">>,
              key_elements |-> <<
                <<"A","u","t","o","m","a","t","e","d"," ","p","r","o","c","e","s","s","e","s"," ","v","a","l","i","d","a","t","e","d">>,
                <<"S","o","f","t","w","a","r","e"," ","v","a","l","i","d","a","t","i","o","n"," ","d","o","c","u","m","e","n","t","e","d">>,
                <<"O","u","t","p","u","t"," ","q","u","a","l","i","t","y"," ","e","n","s","u","r","e","d">>,
                <<"C","h","a","n","g","e"," ","c","o","n","t","r","o","l"," ","f","o","r"," ","a","u","t","o","m","a","t","i","o","n">> >>,
              critical_keywords |-> <<
                <<"a","u","t","o","m","a","t","i","o","n">>,
                <<"s","o","f","t","w","a","r","e"," ","v","a","l","i","d","a","t","i","o","n">>,
                <<"c","o","m","p","u","t","e","r"," ","s","y","s","t","e","m">> >> ] ] >> ] ]

\* '21 CFR Part 820.75 - Process Validation'
Reg_820_75 ==
  [ reg_key |-> <<"2","1"," ","C","F","R"," ","P","a","r","t"," ","8","2","0",".","7","5"," ","-"," ","P","r","o","c","e","s","s"," ","V","a","l","i","d","a","t","i","o","n">>,
    reg_data |->
      [ citation |-> <<"2","1"," ","C","F","R"," ","8","2","0",".","7","5">>,
        title |-> <<"P","r","o","c","e","s","s"," ","V","a","l","i","d","a","t","i","o","n">>,
        subsections |-> <<
        [ subsection |-> <<"8","2","0",".","7","5","(","a",")">>,
          details |->
            [ requirement |-> <<"G","e","n","e","r","a","l"," ","-"," ","V","a","l","i","d","a","t","i","o","n"," ","o","f"," ","p","r","o","c","e","s","s","e","s"," ","w","h","e","r","e"," ","r","e","s","u","l","t","s"," ","c","a","n","n","o","t"," ","b","e"," ","f","u","l","l","y"," ","v","e","r","i","f","i","e","d">>,
              key_elements |-> <<
                <<"V","a","l","i","d","a","t","i","o","n"," ","r","e","q","u","i","r","e","d"," ","f","o","r"," ","p","r","o","c","e","s","s","e","s"," ","n","o","t"," ","f","u","l","l","y"," ","v","e","r","i","f","i","a","b","l","e"," ","b","y"," ","i","n","s","p","e","c","t","i","o","n","/","t","e","s","t","i","n","g">>,
                <<"H","i","g","h"," ","d","e","g","r","e","e"," ","o","f"," ","a","s","s","u","r","a","n","c","e"," ","e","s","t","a","b","l","i","s","h","e","d">>,
                <<"A","p","p","r","o","v","e","d"," ","m","e","t","h","o","d","s"," ","a","n","d"," ","p","r","o","c","e","d","u","r","e","s">>,
                <<"V","a","l","i","d","a","t","i","o","n"," ","p","r","o","t","o","c","o","l"," ","d","o","c","u","m","e","n","t","e","d">> >>,
              critical_keywords |-> <<
                <<"v","a","l","i","d","a","t","i","o","n">>,
                <<"p","r","o","t","o","c","o","l">>,
                <<"h","i","g","h"," ","d","e","g","r","e","e"," ","o","f"," ","a","s","s","u","r","a","n","c","e">>,
                <<"v","e","r","i","f","i","c","a","t","i","o","n">> >> ] ],
        [ subsection |-> <<"8","2","0",".","7","5","(","b",")">>,
          details |->
            [ requirement |-> <<"V","a","l","i","d","a","t","i","o","n"," ","a","c","t","i","v","i","t","i","e","s">>,
              key_elements |-> <<
                <<"V","a","l","i","d","a","t","i","o","n"," ","p","e","r","f","o","r","m","e","d"," ","b","y"," ","q","u","a","l","i","f","i","e","d"," ","p","e","r","s","o","n","n","e","l">>,
                <<"V","a","l","i","d","a","t","i","o","n"," ","p","r","o","t","o","c","o","l"," ","e","s","t","a","b","l","i","s","h","e","s"," ","m","e","t","h","o","d","s"," ","a","n","d"," ","a","c","c","e","p","t","a","n","c","e"," ","c","r","i","t","e","r","i","a">>,
                <<"R","e","s","u","l","t","s"," ","d","o","c","u","m","e","n","t","e","d"," ","a","n","d"," ","a","p","p","r","o","v","e","d">>,
                <<"R","e","v","a","l","i","d","a","t","i","o","n"," ","w","h","e","n"," ","r","e","q","u","i","r","e","d">> >>,
              critical_keywords |-> <<
                <<"v","a","l","i","d","a","t","i","o","n"," ","p","r","o","t","o","c","o","l">>,
                <<"a","c","c","e","p","t","a","n","c","e"," ","c","r","i","t","e","r","i","a">>,
                <<"q","u","a","l","i","f","i","e","d"," ","p","e","r","s","o","n","n","e","l">>,
                <<"r","e","v","a","l","i","d","a","t","i","o","n">> >> ] ] >> ] ]

\* '21 CFR Part 820.80 - Receiving, In-Process, and Finished Device Acceptance'
Reg_820_80 ==
  [ reg_key |-> <<"2","1"," ","C","F","R"," ","P","a","r","t"," ","8","2","0",".","8","0"," ","-"," ","R","e","c","e","i","v","i","n","g",","," ","I","n","-","P","r","o","c","e","s","s",","," ","a","n","d"," ","F","i","n","i","s","h","e","d"," ","D","e","v","i","c","e"," ","A","c","c","e","p","t","a","n","c","e">>,
    reg_data |->
      [ citation |-> <<"2","1"," ","C","F","R"," ","8","2","0",".","8","0">>,
        title |-> <<"R","e","c","e","i","v","i","n","g",","," ","I","n","-","P","r","o","c","e","s","s",","," ","a","n","d"," ","F","i","n","i","s","h","e","d"," ","D","e","v","i","c","e"," ","A","c","c","e","p","t","a","n","c","e">>,
        subsections |-> <<
        [ subsection |-> <<"8","2","0",".","8","0","(","a",")">>,
          details |->
            [ requirement |-> <<"G","e","n","e","r","a","l"," ","-"," ","P","r","o","c","e","d","u","r","e","s"," ","f","o","r"," ","a","c","c","e","p","t","a","n","c","e"," ","a","c","t","i","v","i","t","i","e","s">>,
              key_elements |-> <<
                <<"W","r","i","t","t","e","n"," ","p","r","o","c","e","d","u","r","e","s"," ","f","o","r"," ","a","c","c","e","p","t","a","n","c","e"," ","a","c","t","i","v","i","t","i","e","s">>,
                <<"A","c","c","e","p","t","a","n","c","e"," ","c","r","i","t","e","r","i","a"," ","e","s","t","a","b","l","i","s","h","e","d">>,
                <<"A","c","c","e","p","t","a","n","c","e"," ","a","c","t","i","v","i","t","i","e","s"," ","d","o","c","u","m","e","n","t","e","d">>,
                <<"P","r","o","d","u","c","t"," ","r","e","l","e","a","s","e"," ","a","u","t","h","o","r","i","z","a","t","i","o","n">> >>,
              critical_keywords |-> <<
                <<"a","c","c","e","p","t","a","n","c","e">>,
                <<"p","r","o","c","e","d","u","r","e","s">>,
                <<"c","r","i","t","e","r","i","a">>,
                <<"r","e","l","e","a","s","e">> >> ] ],
        [ subsection |-> <<"8","2","0",".","8","0","(","b",")">>,
          details |->
            [ requirement |-> <<"R","e","c","e","i","v","i","n","g"," ","a","c","c","e","p","t","a","n","c","e"," ","a","c","t","i","v","i","t","i","e","s">>,
              key_elements |-> <<
                <<"I","n","c","o","m","i","n","g"," ","p","r","o","d","u","c","t"," ","i","n","s","p","e","c","t","e","d"," ","o","r"," ","t","e","s","t","e","d">>,
                <<"A","c","c","e","p","t","a","n","c","e"," ","s","t","a","t","u","s"," ","d","o","c","u","m","e","n","t","e","d">>,
                <<"S","u","p","p","l","i","e","r"," ","e","v","a","l","u","a","t","i","o","n"," ","p","e","r","f","o","r","m","e","d">>,
                <<"N","o","n","c","o","n","f","o","r","m","i","n","g"," ","p","r","o","d","u","c","t"," ","i","d","e","n","t","i","f","i","e","d">> >>,
              critical_keywords |-> <<
                <<"r","e","c","e","i","v","i","n","g"," ","i","n","s","p","e","c","t","i","o","n">>,
                <<"i","n","c","o","m","i","n","g">>,
                <<"s","u","p","p","l","i","e","r">>,
                <<"a","c","c","e","p","t","a","n","c","e">> >> ] ],
        [ subsection |-> <<"8","2","0",".","8","0","(","c",")">>,
          details |->
            [ requirement |-> <<"I","n","-","p","r","o","c","e","s","s"," ","a","c","c","e","p","t","a","n","c","e"," ","a","c","t","i","v","i","t","i","e","s">>,
              key_elements |-> <<
                <<"I","n","-","p","r","o","c","e","s","s"," ","i","n","s","p","e","c","t","i","o","n","s"," ","a","n","d"," ","t","e","s","t","s"," ","p","e","r","f","o","r","m","e","d">>,
                <<"M","o","n","i","t","o","r","i","n","g"," ","o","f"," ","p","r","o","c","e","s","s"," ","p","a","r","a","m","e","t","e","r","s">>,
                <<"A","c","c","e","p","t","a","n","c","e"," ","d","o","c","u","m","e","n","t","e","d"," ","a","t"," ","s","p","e","c","i","f","i","e","d"," ","s","t","a","g","e","s">>,
                <<"P","r","o","d","u","c","t"," ","i","d","e","n","t","i","f","i","c","a","t","i","o","n"," ","m","a","i","n","t","a","i","n","e","d">> >>,
              critical_keywords |-> <<
                <<"i","n","-","p","r","o","c","e","s","s">>,
                <<"i","n","s","p","e","c","t","i","o","n">>,
                <<"m","o","n","i","t","o","r","i","n","g">>,
                <<"s","t","a","g","e","s">> >> ] ],
        [ subsection |-> <<"8","2","0",".","8","0","(","d",")">>,
          details |->
            [ requirement |-> <<"F","i","n","a","l"," ","a","c","c","e","p","t","a","n","c","e"," ","a","c","t","i","v","i","t","i","e","s">>,
              key_elements |-> <<
                <<"F","i","n","a","l"," ","i","n","s","p","e","c","t","i","o","n"," ","a","n","d"," ","t","e","s","t","i","n","g"," ","p","e","r","f","o","r","m","e","d">>,
                <<"C","o","m","p","l","e","t","e"," ","D","H","R"," ","r","e","v","i","e","w"," ","b","e","f","o","r","e"," ","r","e","l","e","a","s","e">>,
                <<"A","l","l"," ","a","c","c","e","p","t","a","n","c","e"," ","a","c","t","i","v","i","t","i","e","s"," ","c","o","m","p","l","e","t","e","d">>,
                <<"R","e","l","e","a","s","e"," ","a","u","t","h","o","r","i","z","a","t","i","o","n"," ","d","o","c","u","m","e","n","t","e","d">> >>,
              critical_keywords |-> <<
                <<"f","i","n","a","l"," ","i","n","s","p","e","c","t","i","o","n">>,
                <<"D","H","R">>,
                <<"r","e","l","e","a","s","e">>,
                <<"t","e","s","t","i","n","g">> >> ] ],
        [ subsection |-> <<"8","2","0",".","8","0","(","e",")">>,
          details |->
            [ requirement |-> <<"A","c","c","e","p","t","a","n","c","e"," ","r","e","c","o","r","d","s">>,
              key_elements |-> <<
                <<"R","e","c","o","r","d","s"," ","i","d","e","n","t","i","f","y"," ","i","n","s","p","e","c","t","o","r"," ","o","r"," ","t","e","s","t","e","r">>,
                <<"D","a","t","e"," ","o","f"," ","i","n","s","p","e","c","t","i","o","n"," ","d","o","c","u","m","e","n","t","e","d">>,
                <<"R","e","s","u","l","t","s"," ","r","e","c","o","r","d","e","d">>,
                <<"A","c","c","e","p","t","a","n","c","e","/","r","e","j","e","c","t","i","o","n"," ","d","e","c","i","s","i","o","n"," ","c","l","e","a","r">> >>,
              critical_keywords |-> <<
                <<"r","e","c","o","r","d","s">>,
                <<"i","n","s","p","e","c","t","o","r">>,
                <<"d","a","t","e">>,
                <<"r","e","s","u","l","t","s">> >> ] ] >> ] ]

CFR_REQUIREMENTS == <<Reg_820_70, Reg_820_75, Reg_820_80>>

\* ---------------------------------------------------------------------
\* The fixed text of the detailed prompt (validator.py 248-321), cut at
\* the interpolated fields.
\* ---------------------------------------------------------------------
\* lines 248-250, up to {reg_requirements['title']}
DetailedPreamble ==
    <<"Y","o","u"," ","a","r","e"," ","a","n"," ","F","D","A"," ","r","e","g","u","l","a","t","o","r","y"," ","c","o","m","p","l","i","a","n","c","e"," ","e","x","p","e","r","t"," ","w","i","t","h"," ","e","x","t","e","n","s","i","v","e"," ","e","x","p","e","r","i","e","n","c","e"," ","i","n"," ","m","e","d","i","c","a","l"," ","d","e","v","i","c","e"," ","i","n","s","p","e","c","t","i","o","n","s"," ","a","n","d"," ","2","1"," ","C","F","R"," ","P","a","r","t"," ","8","2","0"," ","Q","u","a","l","i","t","y"," ","S","y","s","t","e","m"," ","R","e","g","u","l","a","t","i","o","n","s",".","\n">> \o
    <<"\n">> \o
    <<"R","E","G","U","L","A","T","I","O","N"," ","T","O"," ","A","S","S","E","S","S",":"," ">>

\* line 250, between title and citation
DetailedTitleOpen ==
    <<" ","(">>

\* lines 250-252, up to {subsection_details}
DetailedRequirementsHeader ==
    <<")","\n">> \o
    <<"\n">> \o
    <<"D","E","T","A","I","L","E","D"," ","R","E","Q","U","I","R","E","M","E","N","T","S",":","\n">>

\* lines 253-265, up to {document_text}
DetailedSeverityGuidelines ==
    <<"\n">> \o
    <<"\n">> \o
    <<"S","E","V","E","R","I","T","Y"," ","C","L","A","S","S","I","F","I","C","A","T","I","O","N"," ","G","U","I","D","E","L","I","N","E","S",":","\n">> \o
    <<"-"," ","C","R","I","T","I","C","A","L",":"," ","D","i","r","e","c","t"," ","p","a","t","i","e","n","t"," ","s","a","f","e","t","y"," ","i","m","p","a","c","t",","," ","m","i","s","s","i","n","g"," ","r","e","q","u","i","r","e","d"," ","s","y","s","t","e","m","s",","," ","l","i","k","e","l","y"," ","F","D","A"," ","W","a","r","n","i","n","g"," ","L","e","t","t","e","r","\n">> \o
    <<" "," ","E","x","a","m","p","l","e","s",":"," ","M","i","s","s","i","n","g"," ","v","a","l","i","d","a","t","i","o","n",","," ","n","o"," ","D","H","R"," ","s","y","s","t","e","m",","," ","i","n","a","d","e","q","u","a","t","e"," ","C","A","P","A","\n">> \o
    <<"\n">> \o
    <<"-"," ","M","A","J","O","R",":"," ","S","i","g","n","i","f","i","c","a","n","t"," ","c","o","m","p","l","i","a","n","c","e"," ","g","a","p",","," ","l","i","k","e","l","y"," ","F","D","A"," ","4","8","3"," ","o","b","s","e","r","v","a","t","i","o","n",","," ","r","e","g","u","l","a","t","o","r","y"," ","a","c","t","i","o","n"," ","p","o","s","s","i","b","l","e","\n">> \o
    <<" "," ","E","x","a","m","p","l","e","s",":"," ","I","n","c","o","m","p","l","e","t","e"," ","p","r","o","c","e","d","u","r","e","s",","," ","i","n","a","d","e","q","u","a","t","e"," ","t","r","a","i","n","i","n","g"," ","r","e","c","o","r","d","s",","," ","m","i","s","s","i","n","g"," ","c","r","i","t","i","c","a","l"," ","d","o","c","u","m","e","n","t","a","t","i","o","n","\n">> \o
    <<"\n">> \o
    <<"-"," ","M","I","N","O","R",":"," ","D","o","c","u","m","e","n","t","a","t","i","o","n"," ","i","m","p","r","o","v","e","m","e","n","t"," ","o","p","p","o","r","t","u","n","i","t","y",","," ","l","o","w"," ","e","n","f","o","r","c","e","m","e","n","t"," ","r","i","s","k","\n">> \o
    <<" "," ","E","x","a","m","p","l","e","s",":"," ","F","o","r","m","a","t"," ","i","n","c","o","n","s","i","s","t","e","n","c","i","e","s",","," ","u","n","c","l","e","a","r"," ","w","o","r","d","i","n","g",","," ","m","i","s","s","i","n","g"," ","n","o","n","-","c","r","i","t","i","c","a","l"," ","r","e","f","e","r","e","n","c","e","s","\n">> \o
    <<"\n">> \o
    <<"D","O","C","U","M","E","N","T"," ","T","O"," ","A","N","A","L","Y","Z","E",":","\n">>

\* lines 266-268, up to {detail_level}
DetailedAnalysisOpen ==
    <<"\n">> \o
    <<"\n">> \o
    <<"A","N","A","L","Y","S","I","S"," ","R","E","Q","U","I","R","E","M","E","N","T","S"," ","(">>

\* lines 268-270, up to the schema block
DetailedAnalysisClose ==
    <<" ","l","e","v","e","l",")",":","\n">> \o
    <<"P","r","o","v","i","d","e"," ","a"," ","t","h","o","r","o","u","g","h",","," ","s","t","r","u","c","t","u","r","e","d"," ","a","n","a","l","y","s","i","s","."," ","Y","o","u"," ","M","U","S","T"," ","r","e","s","p","o","n","d"," ","w","i","t","h"," ","v","a","l","i","d"," ","J","S","O","N"," ","i","n"," ","t","h","e"," ","f","o","l","l","o","w","i","n","g"," ","f","o","r","m","a","t",":","\n">> \o
    <<"\n">>

\* lines 271-313, the output-schema block
DetailedSchema ==
    <<"{","\n">> \o
    <<" "," ","\"","o","v","e","r","a","l","l","_","a","s","s","e","s","s","m","e","n","t","\"",":"," ","{","\n">> \o
    <<" "," "," "," ","\"","c","o","m","p","l","i","a","n","c","e","_","s","c","o","r","e","\"",":"," ","<","0","-","1","0","0",">",",","\n">> \o
    <<" "," "," "," ","\"","o","v","e","r","a","l","l","_","r","i","s","k","_","l","e","v","e","l","\"",":"," ","\"","H","I","G","H","|","M","E","D","I","U","M","|","L","O","W","\"",",","\n">> \o
    <<" "," "," "," ","\"","r","e","a","d","y","_","f","o","r","_","f","d","a","_","i","n","s","p","e","c","t","i","o","n","\"",":"," ","t","r","u","e","|","f","a","l","s","e",",","\n">> \o
    <<" "," "," "," ","\"","e","x","e","c","u","t","i","v","e","_","s","u","m","m","a","r","y","\"",":"," ","\"","B","r","i","e","f"," ","2","-","3"," ","s","e","n","t","e","n","c","e"," ","s","u","m","m","a","r","y"," ","o","f"," ","c","o","m","p","l","i","a","n","c","e"," ","s","t","a","t","u","s","\"","\n">> \o
    <<" "," ","}",",","\n">> \o
    <<" "," ","\"","f","i","n","d","i","n","g","s","\"",":"," ","[","\n">> \o
    <<" "," "," "," ","{","\n">> \o
    <<" "," "," "," "," "," ","\"","c","f","r","_","c","i","t","a","t","i","o","n","\"",":"," ","\"","2","1"," ","C","F","R"," ","8","2","0",".","X","X","(","x",")","\"",",","\n">> \o
    <<" "," "," "," "," "," ","\"","r","e","q","u","i","r","e","m","e","n","t","_","d","e","s","c","r","i","p","t","i","o","n","\"",":"," ","\"","W","h","a","t"," ","t","h","e"," ","r","e","g","u","l","a","t","i","o","n"," ","r","e","q","u","i","r","e","s","\"",",","\n">> \o
    <<" "," "," "," "," "," ","\"","f","i","n","d","i","n","g","\"",":"," ","\"","S","p","e","c","i","f","i","c"," ","g","a","p"," ","o","r"," ","c","o","m","p","l","i","a","n","c","e"," ","o","b","s","e","r","v","a","t","i","o","n"," ","f","o","u","n","d"," ","i","n"," ","t","h","e"," ","d","o","c","u","m","e","n","t","\"",",","\n">> \o
    <<" "," "," "," "," "," ","\"","s","e","v","e","r","i","t","y","\"",":"," ","\"","C","R","I","T","I","C","A","L","|","M","A","J","O","R","|","M","I","N","O","R","\"",",","\n">> \o
    <<" "," "," "," "," "," ","\"","s","e","v","e","r","i","t","y","_","j","u","s","t","i","f","i","c","a","t","i","o","n","\"",":"," ","\"","W","h","y"," ","t","h","i","s"," ","s","e","v","e","r","i","t","y"," ","l","e","v","e","l"," ","w","a","s"," ","a","s","s","i","g","n","e","d"," ","b","a","s","e","d"," ","o","n"," ","F","D","A"," ","e","n","f","o","r","c","e","m","e","n","t"," ","p","r","e","c","e","d","e","n","t","s","\"",",","\n">> \o
    <<" "," "," "," "," "," ","\"","e","v","i","d","e","n","c","e","\"",":"," ","\"","S","p","e","c","i","f","i","c"," ","q","u","o","t","e","s"," ","o","r"," ","r","e","f","e","r","e","n","c","e","s"," ","f","r","o","m"," ","t","h","e"," ","d","o","c","u","m","e","n","t"," ","(","o","r"," ","l","a","c","k"," ","t","h","e","r","e","o","f",")","\"",",","\n">> \o
    <<" "," "," "," "," "," ","\"","r","i","s","k","_","t","o","_","c","o","m","p","l","i","a","n","c","e","\"",":"," ","\"","W","h","a","t"," ","c","o","u","l","d"," ","h","a","p","p","e","n"," ","i","f"," ","n","o","t"," ","a","d","d","r","e","s","s","e","d","\"",",","\n">> \o
    <<" "," "," "," "," "," ","\"","r","e","c","o","m","m","e","n","d","a","t","i","o","n","\"",":"," ","\"","S","p","e","c","i","f","i","c",","," ","a","c","t","i","o","n","a","b","l","e"," ","s","t","e","p","s"," ","t","o"," ","a","d","d","r","e","s","s"," ","t","h","i","s"," ","f","i","n","d","i","n","g","\"",",","\n">> \o
    <<" "," "," "," "," "," ","\"","r","e","g","u","l","a","t","o","r","y","_","p","r","e","c","e","d","e","n","t","\"",":"," ","\"","F","D","A"," ","e","n","f","o","r","c","e","m","e","n","t"," ","e","x","a","m","p","l","e","s"," ","o","r"," ","g","u","i","d","a","n","c","e"," ","d","o","c","u","m","e","n","t","s"," ","t","h","a","t"," ","s","u","p","p","o","r","t"," ","t","h","i","s"," ","a","s","s","e","s","s","m","e","n","t","\"","\n">> \o
    <<" "," "," "," ","}","\n">> \o
    <<" "," ","]",",","\n">> \o
    <<" "," ","\"","s","t","r","e","n","g","t","h","s","\"",":"," ","[","\n">> \o
    <<" "," "," "," ","{","\n">> \o
    <<" "," "," "," "," "," ","\"","c","f","r","_","c","i","t","a","t","i","o","n","\"",":"," ","\"","2","1"," ","C","F","R"," ","8","2","0",".","X","X","(","x",")","\"",",","\n">> \o
    <<" "," "," "," "," "," ","\"","d","e","s","c","r","i","p","t","i","o","n","\"",":"," ","\"","W","h","a","t"," ","t","h","e"," ","d","o","c","u","m","e","n","t"," ","d","o","e","s"," ","w","e","l","l"," ","i","n"," ","t","e","r","m","s"," ","o","f"," ","c","o","m","p","l","i","a","n","c","e","\"","\n">> \o
    <<" "," "," "," ","}","\n">> \o
    <<" "," ","]",",","\n">> \o
    <<" "," ","\"","p","r","i","o","r","i","t","y","_","a","c","t","i","o","n","s","\"",":"," ","[","\n">> \o
    <<" "," "," "," ","{","\n">> \o
    <<" "," "," "," "," "," ","\"","p","r","i","o","r","i","t","y","\"",":"," ","\"","1","|","2","|","3","\"",",","\n">> \o
    <<" "," "," "," "," "," ","\"","a","c","t","i","o","n","\"",":"," ","\"","S","p","e","c","i","f","i","c"," ","a","c","t","i","o","n"," ","t","o"," ","t","a","k","e","\"",",","\n">> \o
    <<" "," "," "," "," "," ","\"","c","f","r","_","c","i","t","a","t","i","o","n","\"",":"," ","\"","2","1"," ","C","F","R"," ","8","2","0",".","X","X","(","x",")","\"",",","\n">> \o
    <<" "," "," "," "," "," ","\"","e","s","t","i","m","a","t","e","d","_","e","f","f","o","r","t","\"",":"," ","\"","L","O","W","|","M","E","D","I","U","M","|","H","I","G","H","\"",",","\n">> \o
    <<" "," "," "," "," "," ","\"","i","m","p","a","c","t","\"",":"," ","\"","H","o","w"," ","t","h","i","s"," ","i","m","p","r","o","v","e","s"," ","c","o","m","p","l","i","a","n","c","e","\"","\n">> \o
    <<" "," "," "," ","}","\n">> \o
    <<" "," ","]",",","\n">> \o
    <<" "," ","\"","i","n","s","p","e","c","t","i","o","n","_","r","e","a","d","i","n","e","s","s","\"",":"," ","{","\n">> \o
    <<" "," "," "," ","\"","c","r","i","t","i","c","a","l","_","g","a","p","s","_","c","o","u","n","t","\"",":"," ","<","n","u","m","b","e","r",">",",","\n">> \o
    <<" "," "," "," ","\"","m","a","j","o","r","_","g","a","p","s","_","c","o","u","n","t","\"",":"," ","<","n","u","m","b","e","r",">",",","\n">> \o
    <<" "," "," "," ","\"","m","i","n","o","r","_","g","a","p","s","_","c","o","u","n","t","\"",":"," ","<","n","u","m","b","e","r",">",",","\n">> \o
    <<" "," "," "," ","\"","e","s","t","i","m","a","t","e","d","_","t","i","m","e","_","t","o","_","c","o","m","p","l","i","a","n","c","e","\"",":"," ","\"","R","e","a","l","i","s","t","i","c"," ","e","s","t","i","m","a","t","e","\"",",","\n">> \o
    <<" "," "," "," ","\"","i","n","s","p","e","c","t","i","o","n","_","r","i","s","k","_","a","r","e","a","s","\"",":"," ","[","\"","L","i","s","t"," ","o","f"," ","a","r","e","a","s"," ","t","h","a","t"," ","w","o","u","l","d"," ","l","i","k","e","l","y"," ","r","e","c","e","i","v","e"," ","s","c","r","u","t","i","n","y","\"","]","\n">> \o
    <<" "," ","}","\n">> \o
    <<"}">>

\* lines 313-321
DetailedImportant ==
    <<"\n">> \o
    <<"\n">> \o
    <<"I","M","P","O","R","T","A","N","T",":","\n">> \o
    <<"-"," ","B","e"," ","t","h","o","r","o","u","g","h"," ","a","n","d"," ","c","i","t","e"," ","s","p","e","c","i","f","i","c"," ","C","F","R"," ","s","u","b","s","e","c","t","i","o","n","s","\n">> \o
    <<"-"," ","B","a","s","e"," ","s","e","v","e","r","i","t","y"," ","o","n"," ","r","e","a","l"," ","F","D","A"," ","e","n","f","o","r","c","e","m","e","n","t"," ","p","r","e","c","e","d","e","n","t","s","\n">> \o
    <<"-"," ","P","r","o","v","i","d","e"," ","a","c","t","i","o","n","a","b","l","e",","," ","s","p","e","c","i","f","i","c"," ","r","e","c","o","m","m","e","n","d","a","t","i","o","n","s","\n">> \o
    <<"-"," ","C","o","n","s","i","d","e","r"," ","i","n","d","u","s","t","r","y"," ","b","e","s","t"," ","p","r","a","c","t","i","c","e","s"," ","b","e","y","o","n","d"," ","m","i","n","i","m","u","m"," ","c","o","m","p","l","i","a","n","c","e","\n">> \o
    <<"-"," ","R","e","t","u","r","n"," ","O","N","L","Y"," ","v","a","l","i","d"," ","J","S","O","N",","," ","n","o"," ","a","d","d","i","t","i","o","n","a","l"," ","t","e","x","t"," ","o","r"," ","m","a","r","k","d","o","w","n"," ","f","o","r","m","a","t","t","i","n","g","\n">>

\* ---------------------------------------------------------------------
\* The fixed text of the basic prompt (validator.py 326-350).
\* ---------------------------------------------------------------------
\* line 326, up to {regulation}
BasicPreamble ==
    <<"Y","o","u"," ","a","r","e"," ","a","n"," ","F","D","A"," ","r","e","g","u","l","a","t","o","r","y"," ","c","o","m","p","l","i","a","n","c","e"," ","e","x","p","e","r","t","."," ","A","n","a","l","y","z","e"," ","t","h","e"," ","f","o","l","l","o","w","i","n","g"," ","m","e","d","i","c","a","l"," ","d","e","v","i","c","e"," ","d","o","c","u","m","e","n","t"," ","a","g","a","i","n","s","t"," ">>

\* lines 326-328, up to {document_text}
BasicDocumentHeader ==
    <<".","\n">> \o
    <<"\n">> \o
    <<"D","o","c","u","m","e","n","t"," ","C","o","n","t","e","n","t",":","\n">>

\* lines 329-331, up to {detail_level.lower()}
BasicProvideOpen ==
    <<"\n">> \o
    <<"\n">> \o
    <<"P","r","o","v","i","d","e"," ","a"," ">>

\* lines 331-332, up to the schema block
BasicProvideClose ==
    <<" ","a","n","a","l","y","s","i","s"," ","w","i","t","h"," ","v","a","l","i","d"," ","J","S","O","N"," ","f","o","r","m","a","t",":","\n">> \o
    <<"\n">>

\* lines 333-347, the output-schema block
BasicSchema ==
    <<"{","\n">> \o
    <<" "," ","\"","o","v","e","r","a","l","l","_","a","s","s","e","s","s","m","e","n","t","\"",":"," ","{","\n">> \o
    <<" "," "," "," ","\"","c","o","m","p","l","i","a","n","c","e","_","s","c","o","r","e","\"",":"," ","<","0","-","1","0","0",">",",","\n">> \o
    <<" "," "," "," ","\"","o","v","e","r","a","l","l","_","r","i","s","k","_","l","e","v","e","l","\"",":"," ","\"","H","I","G","H","|","M","E","D","I","U","M","|","L","O","W","\"",",","\n">> \o
    <<" "," "," "," ","\"","e","x","e","c","u","t","i","v","e","_","s","u","m","m","a","r","y","\"",":"," ","\"","B","r","i","e","f"," ","s","u","m","m","a","r","y","\"","\n">> \o
    <<" "," ","}",",","\n">> \o
    <<" "," ","\"","f","i","n","d","i","n","g","s","\"",":"," ","[","\n">> \o
    <<" "," "," "," ","{","\n">> \o
    <<" "," "," "," "," "," ","\"","c","f","r","_","c","i","t","a","t","i","o","n","\"",":"," ","\"","2","1"," ","C","F","R"," ","X","X","X",".","X","X","\"",",","\n">> \o
    <<" "," "," "," "," "," ","\"","f","i","n","d","i","n","g","\"",":"," ","\"","G","a","p"," ","d","e","s","c","r","i","p","t","i","o","n","\"",",","\n">> \o
    <<" "," "," "," "," "," ","\"","s","e","v","e","r","i","t","y","\"",":"," ","\"","C","R","I","T","I","C","A","L","|","M","A","J","O","R","|","M","I","N","O","R","\"",",","\n">> \o
    <<" "," "," "," "," "," ","\"","r","e","c","o","m","m","e","n","d","a","t","i","o","n","\"",":"," ","\"","S","p","e","c","i","f","i","c"," ","a","c","t","i","o","n","\"","\n">> \o
    <<" "," "," "," ","}","\n">> \o
    <<" "," ","]","\n">> \o
    <<"}">>

\* lines 347-350
BasicTail ==
    <<"\n">> \o
    <<"\n">> \o
    <<"R","e","t","u","r","n"," ","O","N","L","Y"," ","v","a","l","i","d"," ","J","S","O","N",".","\n">>

\* ---------------------------------------------------------------------
\* Python built-ins the code relies on, over character sequences.
\* ---------------------------------------------------------------------
Min(S) == CHOOSE m \in S : \A n \in S : m <= n

\* sub matches s at offset i (0-based): s[i : i + len(sub)] == sub
MatchAt(s, sub, i) ==
    /\ i >= 0
    /\ i + Len(sub) <= Len(s)
    /\ \A j \in 1..Len(sub) : s[i + j] = sub[j]

\* Python `sub in s` for two str values
PyIn(sub, s) == \E i \in 0..(Len(s) - Len(sub)) : MatchAt(s, sub, i)

\* str.startswith
StartsWith(s, prefix) == MatchAt(s, prefix, 0)

UpperCase == <<"A","B","C","D","E","F","G","H","I","J","K","L","M","N","O","P","Q","R","S","T","U","V","W","X","Y","Z">>
LowerCase == <<"a","b","c","d","e","f","g","h","i","j","k","l","m","n","o","p","q","r","s","t","u","v","w","x","y","z">>

LowerChar(c) ==
    IF \E k \in 1..Len(UpperCase) : UpperCase[k] = c
    THEN LowerCase[CHOOSE k \in 1..Len(UpperCase) : UpperCase[k] = c]
    ELSE c

\* str.lower()
Lower(s) == [i \in 1..Len(s) |-> LowerChar(s[i])]

\* the empty dict {} (falsy); a non-empty dict is a record
EmptyDict == <<>>

\* ---------------------------------------------------------------------
\* FDAComplianceValidator: catalog lookup and prompt construction
\* ---------------------------------------------------------------------
RECURSIVE ScanRequirements(_, _)
\* the loop of get_regulation_requirements from the i-th catalog item on
ScanRequirements(reg, i) ==
    IF i > Len(CFR_REQUIREMENTS) THEN EmptyDict
    ELSE IF PyIn(reg, CFR_REQUIREMENTS[i].reg_key)
         THEN CFR_REQUIREMENTS[i].reg_data
         ELSE ScanRequirements(reg, i + 1)

RECURSIVE ScanRequirements_KeyInIdentifier(_, _)
ScanRequirements_KeyInIdentifier(reg, i) ==
    IF i > Len(CFR_REQUIREMENTS) THEN EmptyDict
    ELSE IF PyIn(CFR_REQUIREMENTS[i].reg_key, reg)
         THEN CFR_REQUIREMENTS[i].reg_data
         ELSE ScanRequirements_KeyInIdentifier(reg, i + 1)

\* faulty variant: the containment test the other way round (`reg_key in regulation`)
get_regulation_requirements_KeyInIdentifier(reg) ==
    ScanRequirements_KeyInIdentifier(reg, 1)

get_regulation_requirements(reg) == ScanRequirements(reg, 1)

RECURSIVE ElementLines_DropLast(_, _)
\* faulty variant: the loop stops one element early
ElementLines_DropLast(key_elements, i) ==
    IF i >= Len(key_elements) THEN <<>>
    ELSE <<" "," ","-"," ">> \o key_elements[i] \o <<"\n">> \o ElementLines_DropLast(key_elements, i + 1)

RECURSIVE ElementLines(_, _)
\* for element in details['key_elements']: += f"  - {element}\n"
ElementLines(key_elements, i) ==
    IF i > Len(key_elements) THEN <<>>
    ELSE <<" "," ","-"," ">> \o key_elements[i] \o <<"\n">> \o ElementLines(key_elements, i + 1)

RECURSIVE SubsectionDetails_Keywords(_, _)
\* faulty variant: lists details['critical_keywords'] where the code lists key_elements
SubsectionDetails_Keywords(subsections, i) ==
    IF i > Len(subsections) THEN <<>>
    ELSE <<"\n">> \o subsections[i].subsection \o <<":"," ">>
             \o subsections[i].details.requirement \o <<"\n">>
         \o <<"K","e","y"," ","E","l","e","m","e","n","t","s"," ","t","o"," ","V","e","r","i","f","y",":","\n">>
         \o ElementLines(subsections[i].details.critical_keywords, 1)
         \o SubsectionDetails_Keywords(subsections, i + 1)

RECURSIVE SubsectionDetails(_, _)
\* the loop over reg_requirements["subsections"].items() building subsection_details
SubsectionDetails(subsections, i) ==
    IF i > Len(subsections) THEN <<>>
    ELSE <<"\n">> \o subsections[i].subsection \o <<":"," ">>
             \o subsections[i].details.requirement \o <<"\n">>
         \o <<"K","e","y"," ","E","l","e","m","e","n","t","s"," ","t","o"," ","V","e","r","i","f","y",":","\n">>
         \o ElementLines(subsections[i].details.key_elements, 1)
         \o SubsectionDetails(subsections, i + 1)

\* faulty variant: the fallback prompt carries the detailed prompt's schema block
_build_basic_prompt_FullSchema(doc, reg, level) ==
    BasicPreamble \o reg \o BasicDocumentHeader \o doc
        \o BasicProvideOpen \o Lower(level) \o BasicProvideClose
        \o DetailedSchema \o BasicTail

\* Fallback basic prompt if regulation not in detailed requirements
_build_basic_prompt(doc, reg, level) ==
    BasicPreamble \o reg \o BasicDocumentHeader \o doc
        \o BasicProvideOpen \o Lower(level) \o BasicProvideClose
        \o BasicSchema \o BasicTail

\* the f-string of build_enhanced_prompt for a catalog entry
DetailedPrompt(doc, reqs, level) ==
    DetailedPreamble \o reqs.title \o DetailedTitleOpen \o reqs.citation
        \o DetailedRequirementsHeader \o SubsectionDetails(reqs.subsections, 1)
        \o DetailedSeverityGuidelines \o doc
        \o DetailedAnalysisOpen \o level \o DetailedAnalysisClose
        \o DetailedSchema \o DetailedImportant

\* faulty variant: the "Basic" detail level is routed to the fallback prompt
build_enhanced_prompt_LevelRouted(doc, reg, level) ==
    LET reqs == get_regulation_requirements(reg)
    IN  IF reqs = EmptyDict \/ level = <<"B","a","s","i","c">>
        THEN _build_basic_prompt(doc, reg, level)
        ELSE DetailedPrompt(doc, reqs, level)

build_enhanced_prompt(doc, reg, level) ==
    LET reqs == get_regulation_requirements(reg)
    IN  IF reqs = EmptyDict
        THEN _build_basic_prompt(doc, reg, level)
        ELSE DetailedPrompt(doc, reqs, level)

\* ---------------------------------------------------------------------
\* Python values as json.loads produces them. A dict is the list of its
\* <<key, value>> items in insertion order, keys unique.
\* ---------------------------------------------------------------------
PyNone == [t |-> "None"]
PyBool(b) == [t |-> "bool", v |-> b]
PyInt(n) == [t |-> "int", v |-> n]
PyStr(s) == [t |-> "str", v |-> s]
PyList(xs) == [t |-> "list", v |-> xs]
PyDict(items) == [t |-> "dict", v |-> items]

IsDict(x) == x.t = "dict"

\* key in d
HasKey(d, key) == \E i \in 1..Len(d.v) : d.v[i][1] = key

\* d[key]
Item(d, key) == d.v[CHOOSE i \in 1..Len(d.v) : d.v[i][1] = key][2]

\* d.get(key, default)
Get(d, key, default) == IF HasKey(d, key) THEN Item(d, key) ELSE default

\* d[key] = value on the list of items: a repeated key keeps its place
SetItem(items, key, value) ==
    IF \E i \in 1..Len(items) : items[i][1] = key
    THEN [i \in 1..Len(items) |-> IF items[i][1] = key THEN <<key, value>> ELSE items[i]]
    ELSE Append(items, <<key, value>>)

\* ---------------------------------------------------------------------
\* json.loads (validator.py 402), as the standard decoder scans a str.
\* Offsets are Python's: 0-based. Numbers are integers: no response drawn
\* carries a fraction, an exponent, NaN or Infinity, nor a \b, \f or \u
\* escape.
\* ---------------------------------------------------------------------
Whitespace == {" ", "\t", "\n", "\r"}
Digits == <<"0","1","2","3","4","5","6","7","8","9">>
IsDigit(c) == \E k \in 1..Len(Digits) : Digits[k] = c
DigitValue(c) == (CHOOSE k \in 1..Len(Digits) : Digits[k] = c) - 1

\* s[i:i+1]
CharAt(s, i) == IF i >= 0 /\ i < Len(s) THEN s[i + 1] ELSE ""

RECURSIVE SkipWhitespace(_, _)
\* WHITESPACE.match(s, i).end()
SkipWhitespace(s, i) ==
    IF CharAt(s, i) \in Whitespace THEN SkipWhitespace(s, i + 1) ELSE i

\* a scan that raised JSONDecodeError
ScanError == [ok |-> FALSE, val |-> PyNone, end |-> 0]
Scanned(val, end) == [ok |-> TRUE, val |-> val, end |-> end]

\* the character a backslash escape stands for ("" when it is not one)
Unescape(c) ==
    CASE c = "\"" -> "\""
      [] c = "\\" -> "\\"
      [] c = "/"  -> "/"
      [] c = "n"  -> "\n"
      [] c = "r"  -> "\r"
      [] c = "t"  -> "\t"
      [] OTHER    -> ""

\* the characters that end a run of plain string characters
StringStops == {"\"", "\\", "\n", "\r", "\t"}

RECURSIVE ScanString(_, _, _)
\* scanstring(s, end) in strict mode, end just after the opening quote or
\* the last escape; chars is the content read so far
ScanString(s, end, chars) ==
    IF \A i \in end..(Len(s) - 1) : CharAt(s, i) \notin StringStops
    THEN ScanError                                      \* unterminated string
    ELSE LET stop  == CHOOSE i \in end..(Len(s) - 1) :
                          /\ CharAt(s, i) \in StringStops
                          /\ \A k \in end..(i - 1) : CharAt(s, k) \notin StringStops
             chunk == SubSeq(s, end + 1, stop)
             c     == CharAt(s, stop)
         IN  IF c = "\"" THEN Scanned(PyStr(chars \o chunk), stop + 1)
             ELSE IF c = "\\"
                  THEN IF Unescape(CharAt(s, stop + 1)) = "" THEN ScanError
                       ELSE ScanString(s, stop + 2,
                                chars \o chunk \o << Unescape(CharAt(s, stop + 1)) >>)
             ELSE ScanError                             \* control character

RECURSIVE DigitsEnd(_, _)
DigitsEnd(s, i) == IF IsDigit(CharAt(s, i)) THEN DigitsEnd(s, i + 1) ELSE i

\* faulty variant: only the last digit counts
DecimalValue_LastDigit(s, i, end, acc) == DigitValue(CharAt(s, end - 1))

RECURSIVE DecimalValue(_, _, _, _)
\* int(s[i:end])
DecimalValue(s, i, end, acc) ==
    IF i >= end THEN acc
    ELSE DecimalValue(s, i + 1, end, 10 * acc + DigitValue(CharAt(s, i)))

\* NUMBER_RE: -?(0|[1-9]\d*)
ScanNumber(s, idx) ==
    LET neg   == CharAt(s, idx) = "-"
        start == IF neg THEN idx + 1 ELSE idx
        end   == IF CharAt(s, start) = "0" THEN start + 1 ELSE DigitsEnd(s, start)
        n     == DecimalValue(s, start, end, 0)
    IN  IF ~IsDigit(CharAt(s, start)) THEN ScanError
        ELSE Scanned(PyInt(IF neg THEN 0 - n ELSE n), end)

RECURSIVE ScanOnce(_, _)
RECURSIVE ObjectPairs(_, _, _)
RECURSIVE ArrayValues(_, _, _)

\* JSONObject's loop, end just after the opening quote of a key
ObjectPairs(s, end, pairs) ==
    LET key == ScanString(s, end, <<>>)
    IN  IF ~key.ok THEN ScanError
        ELSE LET colon == SkipWhitespace(s, key.end)
             IN  IF CharAt(s, colon) # ":" THEN ScanError
                 ELSE LET value == ScanOnce(s, SkipWhitespace(s, colon + 1))
                      IN  IF ~value.ok THEN ScanError
                          ELSE LET items == SetItem(pairs, key.val.v, value.val)
                                   after == SkipWhitespace(s, value.end)
                                   next  == SkipWhitespace(s, after + 1)
                               IN  IF CharAt(s, after) = "}"
                                   THEN Scanned(PyDict(items), after + 1)
                                   ELSE IF CharAt(s, after) # "," THEN ScanError
                                   ELSE IF CharAt(s, next) # "\"" THEN ScanError
                                   ELSE ObjectPairs(s, next + 1, items)

\* JSONObject(s, end), end just after "{"
ScanObject(s, end) ==
    LET first == SkipWhitespace(s, end)
    IN  IF CharAt(s, first) = "}" THEN Scanned(PyDict(<<>>), first + 1)
        ELSE IF CharAt(s, first) # "\"" THEN ScanError
        ELSE ObjectPairs(s, first + 1, <<>>)

\* JSONArray's loop, end at the start of a value
ArrayValues(s, end, values) ==
    LET value == ScanOnce(s, end)
    IN  IF ~value.ok THEN ScanError
        ELSE LET after == SkipWhitespace(s, value.end)
             IN  IF CharAt(s, after) = "]"
                 THEN Scanned(PyList(Append(values, value.val)), after + 1)
                 ELSE IF CharAt(s, after) # "," THEN ScanError
                 ELSE ArrayValues(s, SkipWhitespace(s, after + 1), Append(values, value.val))

\* JSONArray(s, end), end just after "["
ScanArray(s, end) ==
    LET first == SkipWhitespace(s, end)
    IN  IF CharAt(s, first) = "]" THEN Scanned(PyList(<<>>), first + 1)
        ELSE ArrayValues(s, first, <<>>)

\* scan_once(s, idx)
ScanOnce(s, idx) ==
    LET c == CharAt(s, idx)
    IN  IF c = "" THEN ScanError
        ELSE IF c = "\"" THEN ScanString(s, idx + 1, <<>>)
        ELSE IF c = "{" THEN ScanObject(s, idx + 1)
        ELSE IF c = "[" THEN ScanArray(s, idx + 1)
        ELSE IF MatchAt(s, <<"n","u","l","l">>, idx) THEN Scanned(PyNone, idx + 4)
        ELSE IF MatchAt(s, <<"t","r","u","e">>, idx) THEN Scanned(PyBool(TRUE), idx + 4)
        ELSE IF MatchAt(s, <<"f","a","l","s","e">>, idx) THEN Scanned(PyBool(FALSE), idx + 5)
        ELSE ScanNumber(s, idx)

\* the outcome of a call: the exception it raised, or "none" and its value
Returned(val) == [raised |-> "none", val |-> val]
Raised(exc) == [raised |-> exc, val |-> PyNone]

\* json.loads(s): one value, whitespace around it, nothing else
json_loads(s) ==
    LET obj == ScanOnce(s, SkipWhitespace(s, 0))
    IN  IF ~obj.ok THEN Raised("JSONDecodeError")
        ELSE IF SkipWhitespace(s, obj.end) # Len(s) THEN Raised("JSONDecodeError")
        ELSE Returned(obj.val)

\* ---------------------------------------------------------------------
\* validate_document, lines 386-415: fence stripping, parse, degraded result
\* ---------------------------------------------------------------------
Max(S) == CHOOSE m \in S : \A n \in S : m >= n

\* str.strip()
Strip(s) ==
    LET kept == { i \in 1..Len(s) : s[i] \notin Whitespace }
    IN  IF kept = {} THEN <<>> ELSE SubSeq(s, Min(kept), Max(kept))

RECURSIVE SplitFrom(_, _)
\* s.split('\n'), the line being read starting at index `from`
SplitFrom(s, from) ==
    IF \A i \in from..Len(s) : s[i] # "\n"
    THEN << SubSeq(s, from, Len(s)) >>
    ELSE LET nl == CHOOSE i \in from..Len(s) :
                       /\ s[i] = "\n"
                       /\ \A k \in from..(i - 1) : s[k] # "\n"
         IN  << SubSeq(s, from, nl - 1) >> \o SplitFrom(s, nl + 1)

SplitLines(s) == SplitFrom(s, 1)

RECURSIVE JoinLines(_, _)
\* '\n'.join(lines[i:])
JoinLines(lines, i) ==
    IF i > Len(lines) THEN <<>>
    ELSE IF i = Len(lines) THEN lines[i]
    ELSE lines[i] \o <<"\n">> \o JoinLines(lines, i + 1)

Fence == <<"<backtick>","<backtick>","<backtick>">>

RECURSIVE FenceScan_ExactMarker(_, _, _)
\* faulty variant: a line toggles the flag only if it is exactly the fence marker
FenceScan_ExactMarker(lines, i, in_code_block) ==
    IF i > Len(lines) THEN <<>>
    ELSE IF Strip(lines[i]) = Fence
         THEN FenceScan_ExactMarker(lines, i + 1, ~in_code_block)
         ELSE (IF in_code_block THEN << lines[i] >> ELSE <<>>)
              \o FenceScan_ExactMarker(lines, i + 1, in_code_block)

RECURSIVE FenceScan(_, _, _)
\* the loop of lines 394-399: json_lines collected from lines[i:]
FenceScan(lines, i, in_code_block) ==
    IF i > Len(lines) THEN <<>>
    ELSE IF StartsWith(Strip(lines[i]), Fence)
         THEN FenceScan(lines, i + 1, ~in_code_block)
         ELSE (IF in_code_block THEN << lines[i] >> ELSE <<>>)
              \o FenceScan(lines, i + 1, in_code_block)

\* lines 388-400: response_text as json.loads receives it
StripCodeFences(response_text) ==
    IF StartsWith(Strip(response_text), Fence)
    THEN JoinLines(FenceScan(SplitLines(response_text), 1, FALSE), 1)
    ELSE response_text

ParseFailureSummary == <<"U","n","a","b","l","e"," ","t","o"," ","p","a","r","s","e"," ","s","t","r","u","c","t","u","r","e","d"," ","r","e","s","u","l","t","s","."," ","S","e","e"," ","r","a","w"," ","a","n","a","l","y","s","i","s"," ","b","e","l","o","w",".">>
ParseFailureError == <<"J","S","O","N"," ","p","a","r","s","i","n","g"," ","f","a","i","l","e","d"," ","-"," ","r","e","s","p","o","n","s","e"," ","m","a","y"," ","n","o","t"," ","b","e"," ","p","r","o","p","e","r","l","y"," ","s","t","r","u","c","t","u","r","e","d">>

\* lines 407-415: the dict returned when json.loads raised JSONDecodeError
DegradedResult(response_text) ==
    PyDict(<<
        << <<"o","v","e","r","a","l","l","_","a","s","s","e","s","s","m","e","n","t">>,
           PyDict(<< << <<"c","o","m","p","l","i","a","n","c","e","_","s","c","o","r","e">>, PyInt(0) >>,
                     << <<"o","v","e","r","a","l","l","_","r","i","s","k","_","l","e","v","e","l">>, PyStr(<<"U","N","K","N","O","W","N">>) >>,
                     << <<"e","x","e","c","u","t","i","v","e","_","s","u","m","m","a","r","y">>, PyStr(ParseFailureSummary) >> >>) >>,
        << <<"r","a","w","_","a","n","a","l","y","s","i","s">>, PyStr(response_text) >>,
        << <<"e","r","r","o","r">>, PyStr(ParseFailureError) >> >>)

\* faulty variant: the degraded result keeps the response as the provider sent it
ParseResponse_KeepsRaw(raw) ==
    LET parsed == json_loads(StripCodeFences(raw))
    IN  IF parsed.raised = "JSONDecodeError" THEN Returned(DegradedResult(raw))
        ELSE parsed

\* lines 386-415: what validate_document does with the provider's text.
\* Only JSONDecodeError is caught; the parsed value is returned as it is.
ParseResponse(raw) ==
    LET parsed == json_loads(StripCodeFences(raw))
    IN  IF parsed.raised = "JSONDecodeError"
        THEN Returned(DegradedResult(StripCodeFences(raw)))
        ELSE parsed

\* ---------------------------------------------------------------------
\* Python's view of a parsed value: truth, iteration, str(), repr(), `<`
\* ---------------------------------------------------------------------
\* bool(x)
Truthy(x) ==
    CASE x.t = "None" -> FALSE
      [] x.t = "bool" -> x.v
      [] x.t = "int"  -> x.v # 0
      [] OTHER        -> Len(x.v) > 0

\* iter(x) is defined
Iterable(x) == x.t \in {"list", "str", "dict"}

\* list(x): the elements, the characters, or the keys
Elements(x) ==
    CASE x.t = "list" -> x.v
      [] x.t = "str"  -> [i \in 1..Len(x.v) |-> PyStr(<< x.v[i] >>)]
      [] x.t = "dict" -> [i \in 1..Len(x.v) |-> PyStr(x.v[i][1])]

RECURSIVE NatToStr(_)
NatToStr(n) ==
    IF n < 10 THEN << Digits[n + 1] >>
    ELSE NatToStr(n \div 10) \o << Digits[(n % 10) + 1] >>

\* str(n) of an int
IntToStr(n) == IF n < 0 THEN <<"-">> \o NatToStr(0 - n) ELSE NatToStr(n)

RECURSIVE ReprChars(_, _, _)
\* the body of repr(s) from the i-th character on, inside `quote`
ReprChars(s, i, quote) ==
    IF i > Len(s) THEN <<>>
    ELSE (CASE s[i] = "\\"  -> <<"\\","\\">>
            [] s[i] = quote -> << "\\", quote >>
            [] s[i] = "\n"  -> <<"\\","n">>
            [] s[i] = "\r"  -> <<"\\","r">>
            [] s[i] = "\t"  -> <<"\\","t">>
            [] OTHER        -> << s[i] >>)
         \o ReprChars(s, i + 1, quote)

\* repr(s) of a str: single quotes unless s has a ' and no "
ReprStr(s) ==
    LET quote == IF PyIn(<<"'">>, s) /\ ~PyIn(<<"\"">>, s) THEN "\"" ELSE "'"
    IN  << quote >> \o ReprChars(s, 1, quote) \o << quote >>

RECURSIVE Repr(_)
RECURSIVE ReprItems(_, _, _)
\* ", ".join of the reprs of xs[i:]; as_dict: xs are <<key, value>> items
ReprItems(xs, i, as_dict) ==
    IF i > Len(xs) THEN <<>>
    ELSE (IF as_dict THEN ReprStr(xs[i][1]) \o <<":"," ">> \o Repr(xs[i][2]) ELSE Repr(xs[i]))
         \o (IF i < Len(xs) THEN <<","," ">> ELSE <<>>)
         \o ReprItems(xs, i + 1, as_dict)

\* repr(x)
Repr(x) ==
    CASE x.t = "None" -> <<"N","o","n","e">>
      [] x.t = "bool" -> (IF x.v THEN <<"T","r","u","e">> ELSE <<"F","a","l","s","e">>)
      [] x.t = "int"  -> IntToStr(x.v)
      [] x.t = "str"  -> ReprStr(x.v)
      [] x.t = "list" -> <<"[">> \o ReprItems(x.v, 1, FALSE) \o <<"]">>
      [] x.t = "dict" -> <<"{">> \o ReprItems(x.v, 1, TRUE) \o <<"}">>

\* str(x), what an f-string field shows
Str(x) == IF x.t = "str" THEN x.v ELSE Repr(x)

IsNumber(x) == x.t \in {"int", "bool"}
NumberOf(x) == IF x.t = "bool" THEN (IF x.v THEN 1 ELSE 0) ELSE x.v

RECURSIVE PyEq(_, _)
\* a == b
PyEq(a, b) ==
    IF IsNumber(a) /\ IsNumber(b) THEN NumberOf(a) = NumberOf(b)
    ELSE IF a.t # b.t THEN FALSE
    ELSE CASE a.t = "None" -> TRUE
           [] a.t = "str"  -> a.v = b.v
           [] a.t = "list" ->
                /\ Len(a.v) = Len(b.v)
                /\ \A i \in 1..Len(a.v) : PyEq(a.v[i], b.v[i])
           [] a.t = "dict" ->
                /\ Len(a.v) = Len(b.v)
                /\ \A i \in 1..Len(a.v) :
                      \E j \in 1..Len(b.v) :
                          a.v[i][1] = b.v[j][1] /\ PyEq(a.v[i][2], b.v[j][2])

\* the characters in code-point order
CodePoints ==
    << "\t", "\n", "\r" >>
    \o <<" ","!","\"","#","$","%","&","'","(",")","*","+",",","-",".","/","0","1","2","3","4","5","6","7","8","9",":",";","<","=",">","?","@","A","B","C","D","E","F","G","H","I","J","K","L","M","N","O","P","Q","R","S","T","U","V","W","X","Y","Z","[","\\","]","^","_">>
    \o <<"<backtick>","a","b","c","d","e","f","g","h","i","j","k","l","m","n","o","p","q","r","s","t","u","v","w","x","y","z","{","|","}","~">>
    \o << "<bullet>", "<check>" >>

\* ord(c), up to an order-preserving renumbering
Ord(c) == CHOOSE k \in 1..Len(CodePoints) : CodePoints[k] = c

\* a < b for two str
StrLess(a, b) ==
    \/ Len(a) < Len(b) /\ SubSeq(b, 1, Len(a)) = a
    \/ \E k \in 1..Len(a) :
          /\ k <= Len(b)
          /\ SubSeq(a, 1, k - 1) = SubSeq(b, 1, k - 1)
          /\ Ord(a[k]) < Ord(b[k])

RECURSIVE PyLess(_, _)
\* a < b: "T", "F", or "E" when it raises TypeError
PyLess(a, b) ==
    IF IsNumber(a) /\ IsNumber(b)
    THEN (IF NumberOf(a) < NumberOf(b) THEN "T" ELSE "F")
    ELSE IF a.t = "str" /\ b.t = "str"
    THEN (IF StrLess(a.v, b.v) THEN "T" ELSE "F")
    ELSE IF a.t = "list" /\ b.t = "list"
    THEN LET differ == { k \in 1..Len(a.v) : k <= Len(b.v) /\ ~PyEq(a.v[k], b.v[k]) }
         IN  IF differ = {}
             THEN (IF Len(a.v) < Len(b.v) THEN "T" ELSE "F")
             ELSE PyLess(a.v[Min(differ)], b.v[Min(differ)])
    ELSE "E"

\* sorted(items, key=...) when no comparison raises: keys[i] is the key of
\* items[i]; equal keys keep their order
SortedByKey(items, keys) ==
    LET n == Len(items)
        before(i) == { j \in 1..n : \/ PyLess(keys[j], keys[i]) = "T"
                                    \/ j < i /\ PyLess(keys[i], keys[j]) # "T" }
    IN  [k \in 1..n |-> items[CHOOSE i \in 1..n : Cardinality(before(i)) = k - 1]]

\* ---------------------------------------------------------------------
\* format_results_for_display (validator.py 417-488). A section is the
\* exception it raised, or "none" and the lines it appended to output.
\* ---------------------------------------------------------------------
RuleWidth == 60
MissingPriority == 999

Rule == [i \in 1..RuleWidth |-> "="]
NA == PyStr(<<"N","/","A">>)

Lines(out) == [raised |-> "none", out |-> out]
SectionRaised(exc) == [raised |-> exc, out |-> <<>>]

\* faulty variant: the test looks for the raw_analysis key
ErrorIn_RawAnalysis(results) ==
    CASE results.t = "dict" -> HasKey(results, <<"r","a","w","_","a","n","a","l","y","s","i","s">>)
      [] results.t = "list" -> \E i \in 1..Len(results.v) : PyEq(results.v[i], PyStr(<<"e","r","r","o","r">>))
      [] results.t = "str"  -> PyIn(<<"e","r","r","o","r">>, results.v)

\* `"error" in results`: defined for a dict, a list and a str
ErrorIn(results) ==
    CASE results.t = "dict" -> HasKey(results, <<"e","r","r","o","r">>)
      [] results.t = "list" -> \E i \in 1..Len(results.v) : PyEq(results.v[i], PyStr(<<"e","r","r","o","r">>))
      [] results.t = "str"  -> PyIn(<<"e","r","r","o","r">>, results.v)

\* faulty variant: an absent executive_summary is rendered as N/A
AssessmentSection_SummaryNA(results) ==
    LET assessment == Get(results, <<"o","v","e","r","a","l","l","_","a","s","s","e","s","s","m","e","n","t">>, PyDict(<<>>))
    IN  IF ~IsDict(assessment) THEN SectionRaised("AttributeError")
        ELSE Lines(<<
            Rule,
            <<"O","V","E","R","A","L","L"," ","C","O","M","P","L","I","A","N","C","E"," ","A","S","S","E","S","S","M","E","N","T">>,
            Rule,
            <<"C","o","m","p","l","i","a","n","c","e"," ","S","c","o","r","e",":"," ">> \o Str(Get(assessment, <<"c","o","m","p","l","i","a","n","c","e","_","s","c","o","r","e">>, NA)) \o <<"%">>,
            <<"O","v","e","r","a","l","l"," ","R","i","s","k"," ","L","e","v","e","l",":"," ">> \o Str(Get(assessment, <<"o","v","e","r","a","l","l","_","r","i","s","k","_","l","e","v","e","l">>, NA)),
            <<"F","D","A"," ","I","n","s","p","e","c","t","i","o","n"," ","R","e","a","d","y",":"," ">> \o Str(Get(assessment, <<"r","e","a","d","y","_","f","o","r","_","f","d","a","_","i","n","s","p","e","c","t","i","o","n">>, NA)),
            <<"\n">> \o Str(Get(assessment, <<"e","x","e","c","u","t","i","v","e","_","s","u","m","m","a","r","y">>, NA)) >>)

\* lines 425-433
AssessmentSection(results) ==
    LET assessment == Get(results, <<"o","v","e","r","a","l","l","_","a","s","s","e","s","s","m","e","n","t">>, PyDict(<<>>))
    IN  IF ~IsDict(assessment) THEN SectionRaised("AttributeError")
        ELSE Lines(<<
            Rule,
            <<"O","V","E","R","A","L","L"," ","C","O","M","P","L","I","A","N","C","E"," ","A","S","S","E","S","S","M","E","N","T">>,
            Rule,
            <<"C","o","m","p","l","i","a","n","c","e"," ","S","c","o","r","e",":"," ">> \o Str(Get(assessment, <<"c","o","m","p","l","i","a","n","c","e","_","s","c","o","r","e">>, NA)) \o <<"%">>,
            <<"O","v","e","r","a","l","l"," ","R","i","s","k"," ","L","e","v","e","l",":"," ">> \o Str(Get(assessment, <<"o","v","e","r","a","l","l","_","r","i","s","k","_","l","e","v","e","l">>, NA)),
            <<"F","D","A"," ","I","n","s","p","e","c","t","i","o","n"," ","R","e","a","d","y",":"," ">> \o Str(Get(assessment, <<"r","e","a","d","y","_","f","o","r","_","f","d","a","_","i","n","s","p","e","c","t","i","o","n">>, NA)),
            <<"\n">> \o Str(Get(assessment, <<"e","x","e","c","u","t","i","v","e","_","s","u","m","m","a","r","y">>, PyStr(<<>>))) >>)

\* lines 446-449
RiskAreaLines(ir) ==
    LET areas == Get(ir, <<"i","n","s","p","e","c","t","i","o","n","_","r","i","s","k","_","a","r","e","a","s">>, PyNone)
    IN  IF ~Truthy(areas) THEN Lines(<<>>)
        ELSE IF ~Iterable(areas) THEN SectionRaised("TypeError")
        ELSE Lines(<< <<"\n","H","i","g","h","-","R","i","s","k"," ","A","r","e","a","s"," ","f","o","r"," ","I","n","s","p","e","c","t","i","o","n",":">> >>
                   \o [i \in 1..Len(Elements(areas)) |->
                          << " ", " ", "<bullet>", " " >> \o Str(Elements(areas)[i])])

\* lines 435-449
ReadinessSection(results) ==
    IF ~HasKey(results, <<"i","n","s","p","e","c","t","i","o","n","_","r","e","a","d","i","n","e","s","s">>) THEN Lines(<<>>)
    ELSE LET ir == Item(results, <<"i","n","s","p","e","c","t","i","o","n","_","r","e","a","d","i","n","e","s","s">>)
         IN  IF ~IsDict(ir) THEN SectionRaised("AttributeError")
             ELSE IF RiskAreaLines(ir).raised # "none" THEN RiskAreaLines(ir)
             ELSE Lines(<<
                 <<"\n">> \o Rule,
                 <<"I","N","S","P","E","C","T","I","O","N"," ","R","E","A","D","I","N","E","S","S"," ","S","U","M","M","A","R","Y">>,
                 Rule,
                 <<"C","r","i","t","i","c","a","l"," ","G","a","p","s",":"," ">> \o Str(Get(ir, <<"c","r","i","t","i","c","a","l","_","g","a","p","s","_","c","o","u","n","t">>, PyInt(0))),
                 <<"M","a","j","o","r"," ","G","a","p","s",":"," ">> \o Str(Get(ir, <<"m","a","j","o","r","_","g","a","p","s","_","c","o","u","n","t">>, PyInt(0))),
                 <<"M","i","n","o","r"," ","G","a","p","s",":"," ">> \o Str(Get(ir, <<"m","i","n","o","r","_","g","a","p","s","_","c","o","u","n","t">>, PyInt(0))),
                 <<"E","s","t","i","m","a","t","e","d"," ","T","i","m","e"," ","t","o"," ","C","o","m","p","l","i","a","n","c","e",":"," ">>
                     \o Str(Get(ir, <<"e","s","t","i","m","a","t","e","d","_","t","i","m","e","_","t","o","_","c","o","m","p","l","i","a","n","c","e">>, NA)) >>
                 \o RiskAreaLines(ir).out)

\* lines 459-466 for the i-th finding
FindingLines(i, finding) ==
    << <<"\n","[">> \o IntToStr(i) \o <<"]"," ">> \o Str(Get(finding, <<"c","f","r","_","c","i","t","a","t","i","o","n">>, NA))
           \o <<" ","-"," ">> \o Str(Get(finding, <<"s","e","v","e","r","i","t","y">>, NA)),
       <<"R","e","q","u","i","r","e","m","e","n","t",":"," ">> \o Str(Get(finding, <<"r","e","q","u","i","r","e","m","e","n","t","_","d","e","s","c","r","i","p","t","i","o","n">>, NA)),
       <<"F","i","n","d","i","n","g",":"," ">> \o Str(Get(finding, <<"f","i","n","d","i","n","g">>, NA)),
       <<"R","i","s","k",":"," ">> \o Str(Get(finding, <<"r","i","s","k","_","t","o","_","c","o","m","p","l","i","a","n","c","e">>, NA)),
       <<"R","e","c","o","m","m","e","n","d","a","t","i","o","n",":"," ">> \o Str(Get(finding, <<"r","e","c","o","m","m","e","n","d","a","t","i","o","n">>, NA)) >>
    \o (IF Truthy(Get(finding, <<"r","e","g","u","l","a","t","o","r","y","_","p","r","e","c","e","d","e","n","t">>, PyNone))
        THEN << <<"R","e","g","u","l","a","t","o","r","y"," ","P","r","e","c","e","d","e","n","t",":"," ">> \o Str(Item(finding, <<"r","e","g","u","l","a","t","o","r","y","_","p","r","e","c","e","d","e","n","t">>)) >>
        ELSE <<>>)

RECURSIVE FindingsFrom(_, _)
FindingsFrom(items, i) ==
    IF i > Len(items) THEN <<>>
    ELSE FindingLines(i, items[i]) \o FindingsFrom(items, i + 1)

\* lines 451-466
FindingsSection(results) ==
    LET findings == Get(results, <<"f","i","n","d","i","n","g","s">>, PyList(<<>>))
    IN  IF ~Truthy(findings) THEN Lines(<<>>)
        ELSE IF ~Iterable(findings) THEN SectionRaised("TypeError")
        ELSE IF \E i \in 1..Len(Elements(findings)) : ~IsDict(Elements(findings)[i])
        THEN SectionRaised("AttributeError")
        ELSE Lines(<< <<"\n">> \o Rule, <<"D","E","T","A","I","L","E","D"," ","F","I","N","D","I","N","G","S">>, Rule >>
                   \o FindingsFrom(Elements(findings), 1))

\* lines 468-475
StrengthsSection(results) ==
    LET strengths == Get(results, <<"s","t","r","e","n","g","t","h","s">>, PyList(<<>>))
    IN  IF ~Truthy(strengths) THEN Lines(<<>>)
        ELSE IF ~Iterable(strengths) THEN SectionRaised("TypeError")
        ELSE IF \E i \in 1..Len(Elements(strengths)) : ~IsDict(Elements(strengths)[i])
        THEN SectionRaised("AttributeError")
        ELSE Lines(<< <<"\n">> \o Rule, <<"C","O","M","P","L","I","A","N","C","E"," ","S","T","R","E","N","G","T","H","S">>, Rule >>
                   \o [i \in 1..Len(Elements(strengths)) |->
                          << "<check>", " " >>
                          \o Str(Get(Elements(strengths)[i], <<"c","f","r","_","c","i","t","a","t","i","o","n">>, NA))
                          \o <<":"," ">>
                          \o Str(Get(Elements(strengths)[i], <<"d","e","s","c","r","i","p","t","i","o","n">>, NA))])

\* lines 484-486 for one action
ActionLines(action) ==
    << <<"\n","P","r","i","o","r","i","t","y"," ">> \o Str(Get(action, <<"p","r","i","o","r","i","t","y">>, NA))
           \o <<" ","-"," ">> \o Str(Get(action, <<"c","f","r","_","c","i","t","a","t","i","o","n">>, NA)),
       <<"A","c","t","i","o","n",":"," ">> \o Str(Get(action, <<"a","c","t","i","o","n">>, NA)),
       <<"E","f","f","o","r","t",":"," ">> \o Str(Get(action, <<"e","s","t","i","m","a","t","e","d","_","e","f","f","o","r","t">>, NA))
           \o <<" ","|"," ","I","m","p","a","c","t",":"," ">> \o Str(Get(action, <<"i","m","p","a","c","t">>, NA)) >>

RECURSIVE ActionsFrom(_, _)
ActionsFrom(actions, i) ==
    IF i > Len(actions) THEN <<>>
    ELSE ActionLines(actions[i]) \o ActionsFrom(actions, i + 1)

\* key=lambda x: x.get('priority', 999) over the actions
PriorityKeys(actions) ==
    [i \in 1..Len(actions) |-> Get(actions[i], <<"p","r","i","o","r","i","t","y">>, PyInt(MissingPriority))]

\* lines 477-486
PrioritySection(results) ==
    LET priority_actions == Get(results, <<"p","r","i","o","r","i","t","y","_","a","c","t","i","o","n","s">>, PyList(<<>>))
    IN  IF ~Truthy(priority_actions) THEN Lines(<<>>)
        ELSE IF ~Iterable(priority_actions) THEN SectionRaised("TypeError")
        ELSE LET actions == Elements(priority_actions)
                 keys    == PriorityKeys(actions)
             IN  IF \E i \in 1..Len(actions) : ~IsDict(actions[i])
                 THEN SectionRaised("AttributeError")
                 ELSE IF \E i, j \in 1..Len(actions) : i # j /\ PyLess(keys[i], keys[j]) = "E"
                 THEN SectionRaised("TypeError")
                 ELSE Lines(<< <<"\n">> \o Rule, <<"P","R","I","O","R","I","T","Y"," ","A","C","T","I","O","N","S">>, Rule >>
                            \o ActionsFrom(SortedByKey(actions, keys), 1))

\* faulty variant: the strengths are rendered before the findings
Sections_StrengthsFirst(results) ==
    << AssessmentSection(results), ReadinessSection(results), StrengthsSection(results),
       FindingsSection(results), PrioritySection(results) >>

\* the sections in the order the code runs them
Sections(results) ==
    << AssessmentSection(results), ReadinessSection(results), FindingsSection(results),
       StrengthsSection(results), PrioritySection(results) >>

\* format_results_for_display(results)
format_results_for_display(results) ==
    IF results.t \notin {"dict", "list", "str"} THEN Raised("TypeError")
    ELSE IF ErrorIn(results)
    THEN (IF ~IsDict(results) THEN Raised("AttributeError")
          ELSE Returned(Get(results, <<"r","a","w","_","a","n","a","l","y","s","i","s">>, PyStr(<<"A","n","a","l","y","s","i","s"," ","f","a","i","l","e","d">>))))
    ELSE IF ~IsDict(results) THEN Raised("AttributeError")
    ELSE LET sections == Sections(results)
             failed   == { k \in 1..Len(sections) : sections[k].raised # "none" }
         IN  IF failed # {} THEN Raised(sections[Min(failed)].raised)
             ELSE Returned(PyStr(JoinLines(
                     sections[1].out \o sections[2].out \o sections[3].out
                         \o sections[4].out \o sections[5].out, 1)))

\* ---------------------------------------------------------------------
\* json.dumps(structured, indent=2), app.py 470 and 488
\* ---------------------------------------------------------------------
\* the characters py_encode_basestring_ascii replaces
EscapedChars == {"\"", "\\", "\n", "\r", "\t", "<bullet>", "<check>"}

\* faulty variant: the quote and the backslash are written as they are
EscapeChar_QuotesKept(c) ==
    CASE c = "\n" -> <<"\\","n">>
      [] c = "\r" -> <<"\\","r">>
      [] c = "\t" -> <<"\\","t">>
      [] c = "<bullet>" -> <<"\\","u","2","0","2","2">>
      [] c = "<check>"  -> <<"\\","u","2","7","1","3">>
      [] OTHER -> << c >>

\* ESCAPE_DCT, and \uXXXX for a character outside ASCII
EscapeChar(c) ==
    CASE c = "\"" -> <<"\\","\"">>
      [] c = "\\" -> <<"\\","\\">>
      [] c = "\n" -> <<"\\","n">>
      [] c = "\r" -> <<"\\","r">>
      [] c = "\t" -> <<"\\","t">>
      [] c = "<bullet>" -> <<"\\","u","2","0","2","2">>
      [] c = "<check>"  -> <<"\\","u","2","7","1","3">>

RECURSIVE EscapeFrom(_, _)
\* s[from:] with every escaped character replaced
EscapeFrom(s, from) ==
    IF \A i \in from..Len(s) : s[i] \notin EscapedChars
    THEN SubSeq(s, from, Len(s))
    ELSE LET stop == CHOOSE i \in from..Len(s) :
                         /\ s[i] \in EscapedChars
                         /\ \A k \in from..(i - 1) : s[k] \notin EscapedChars
         IN  SubSeq(s, from, stop - 1) \o EscapeChar(s[stop]) \o EscapeFrom(s, stop + 1)

\* encode_basestring_ascii(s)
EncodeString(s) == <<"\"">> \o EscapeFrom(s, 1) \o <<"\"">>

\* the newline and the indentation of nesting depth `level`
NewlineIndent(indent, level) == <<"\n">> \o [i \in 1..(indent * level) |-> " "]

RECURSIVE Encode(_, _, _)
RECURSIVE EncodeItems(_, _, _, _, _)
\* the items xs[i:] of a list or a dict, one per line at depth `level`
EncodeItems(xs, i, as_dict, indent, level) ==
    IF i > Len(xs) THEN <<>>
    ELSE (IF i > 1 THEN <<",">> ELSE <<>>)
         \o NewlineIndent(indent, level)
         \o (IF as_dict
             THEN EncodeString(xs[i][1]) \o <<":"," ">> \o Encode(xs[i][2], indent, level)
             ELSE Encode(xs[i], indent, level))
         \o EncodeItems(xs, i + 1, as_dict, indent, level)

\* _make_iterencode's _iterencode at nesting depth `level`
Encode(x, indent, level) ==
    CASE x.t = "None" -> <<"n","u","l","l">>
      [] x.t = "bool" -> (IF x.v THEN <<"t","r","u","e">> ELSE <<"f","a","l","s","e">>)
      [] x.t = "int"  -> IntToStr(x.v)
      [] x.t = "str"  -> EncodeString(x.v)
      [] x.t = "list" ->
           IF x.v = <<>> THEN <<"[","]">>
           ELSE <<"[">> \o EncodeItems(x.v, 1, FALSE, indent, level + 1)
                \o NewlineIndent(indent, level) \o <<"]">>
      [] x.t = "dict" ->
           IF x.v = <<>> THEN <<"{","}">>
           ELSE <<"{">> \o EncodeItems(x.v, 1, TRUE, indent, level + 1)
                \o NewlineIndent(indent, level) \o <<"}">>

\* json.dumps(obj, indent=indent)
json_dumps(obj, indent) == Encode(obj, indent, 0)

\* the indent of the JSON export
ExportIndent == 2

\* ---------------------------------------------------------------------
\* Inputs
\* ---------------------------------------------------------------------
\* how many characters an identifier drops from, or adds to, each end of a key
MaxPad == 1
\* longest document text drawn from DocAlphabet
MaxDocLen == 1

\* the options of the "Detail Level" slider (app.py 242-246)
DetailLevels == { <<"B","a","s","i","c">>, <<"S","t","a","n","d","a","r","d">>, <<"C","o","m","p","r","e","h","e","n","s","i","v","e">> }

Pad(n) == [i \in 1..n |-> "#"]

\* a key with up to MaxPad characters cut from, or "#" added to, each end
Variants(key) ==
    { (IF a > 0 THEN Pad(a) ELSE <<>>)
        \o SubSeq(key, (IF a < 0 THEN 1 - a ELSE 1), (IF b < 0 THEN Len(key) + b ELSE Len(key)))
        \o (IF b > 0 THEN Pad(b) ELSE <<>>)
      : a \in (0 - MaxPad)..MaxPad, b \in (0 - MaxPad)..MaxPad }

Regulations ==
    UNION { Variants(CFR_REQUIREMENTS[i].reg_key) : i \in 1..Len(CFR_REQUIREMENTS) }
    \cup { <<>>, <<"8","2","0">>, <<"8","2","0",".","7","5">>, <<"2","1"," ","C","F","R"," ","P","a","r","t"," ","8","2","0",".">>,
           <<"2","1"," ","C","F","R"," ","P","a","r","t"," ","9","9","9",".","9","9"," ","-"," ","M","a","d","e"," ","U","p">> }

DocAlphabet == { "x", "\n" }

Documents ==
    UNION { [1..n -> DocAlphabet] : n \in 0..MaxDocLen }
    \cup { <<"a"," ","h","i","g","h"," ","d","e","g","r","e","e"," ","o","f"," ","a","s","s","u","r","a","n","c","e">>,
           <<"\"","i","n","s","p","e","c","t","i","o","n","_","r","e","a","d","i","n","e","s","s","\"",","," ","\"","p","r","i","o","r","i","t","y","_","a","c","t","i","o","n","s","\"",","," ","\"","s","t","r","e","n","g","t","h","s","\"">> }

\* no call made yet
Pending == [raised |-> "pending", val |-> PyNone]

\* app.py 202-204: a new session holds no result
NewSession == [validation_results |-> PyNone]

\* nothing uploaded
NoFile == PyNone

\* no script run has handled a button yet
NoRun ==
    [action |-> "none", api_key |-> FALSE, extracted |-> FALSE, prompt_built |-> FALSE,
     provider_calls |-> 0, normalized |-> FALSE, rendered |-> FALSE, stored |-> FALSE,
     errors |-> <<>>, warnings |-> <<>>, before |-> PyNone]

\* the session is untouched by the function-level specifications
SessionIdle ==
    /\ uploaded_file = NoFile
    /\ session_state = NewSession
    /\ run = NoRun

\* ---------------------------------------------------------------------
\* SpecPrompt: the catalog lookup and the prompt builder applied to inputs
\* ---------------------------------------------------------------------
InitPrompt ==
    /\ pc = "start"
    /\ regulation \in Regulations
    /\ document_text \in Documents
    /\ detail_level \in DetailLevels
    /\ reg_requirements = EmptyDict
    /\ prompt = <<>>
    /\ raw_response = <<>>
    /\ stripped_response = <<>>
    /\ validation_results = Pending
    /\ formatted_output = Pending
    /\ SessionIdle
    /\ download_json = PyNone

GetRegulationRequirements ==
    /\ pc = "start"
    /\ reg_requirements' = get_regulation_requirements(regulation)
    /\ pc' = "looked_up"
    /\ UNCHANGED <<regulation, document_text, detail_level, prompt, responseVars, sessionVars>>

BuildEnhancedPrompt ==
    /\ pc = "start"
    /\ reg_requirements' = get_regulation_requirements(regulation)
    /\ prompt' = build_enhanced_prompt(document_text, regulation, detail_level)
    /\ pc' = "built"
    /\ UNCHANGED <<regulation, document_text, detail_level, responseVars, sessionVars>>

NextPrompt == GetRegulationRequirements \/ BuildEnhancedPrompt

SpecPrompt == InitPrompt /\ [][NextPrompt]_vars

\* ---------------------------------------------------------------------
\* Provider responses: a body, bare or inside a wrapper
\* ---------------------------------------------------------------------
\* texts that are one JSON object
ObjectBodies == {
    <<"{","}">>,
    <<"{","\"","o","v","e","r","a","l","l","_","a","s","s","e","s","s","m","e","n","t","\"",":"," ","{","\"","c","o","m","p","l","i","a","n","c","e","_","s","c","o","r","e","\"",":"," ","4","2",","," ","\"","o","v","e","r","a","l","l","_","r","i","s","k","_","l","e","v","e","l","\"",":"," ","\"","L","O","W","\"",","," ","\"","e","x","e","c","u","t","i","v","e","_","s","u","m","m","a","r","y","\"",":"," ","\"","o","k","\"","}",","," ","\"","f","i","n","d","i","n","g","s","\"",":"," ","[","]","}">>,
    <<"{","\n"," "," ","\"","o","v","e","r","a","l","l","_","a","s","s","e","s","s","m","e","n","t","\"",":"," ","{","\n"," "," "," "," ","\"","c","o","m","p","l","i","a","n","c","e","_","s","c","o","r","e","\"",":"," ","7","\n"," "," ","}",",","\n"," "," ","\"","f","i","n","d","i","n","g","s","\"",":"," ","[","\n"," "," "," "," ","{","\n"," "," "," "," "," "," ","\"","s","e","v","e","r","i","t","y","\"",":"," ","\"","M","A","J","O","R","\"","\n"," "," "," "," ","}","\n"," "," ","]","\n","}">>,
    <<"{","\"","o","v","e","r","a","l","l","_","a","s","s","e","s","s","m","e","n","t","\"",":"," ","{","\"","c","o","m","p","l","i","a","n","c","e","_","s","c","o","r","e","\"",":"," ","8","5",","," ","\"","o","v","e","r","a","l","l","_","r","i","s","k","_","l","e","v","e","l","\"",":"," ","\"","M","E","D","I","U","M","\"",","," ","\"","r","e","a","d","y","_","f","o","r","_","f","d","a","_","i","n","s","p","e","c","t","i","o","n","\"",":"," ","f","a","l","s","e","}",",","\n"," ","\"","f","i","n","d","i","n","g","s","\"",":"," ","[","{","\"","c","f","r","_","c","i","t","a","t","i","o","n","\"",":"," ","\"","2","1"," ","C","F","R"," ","8","2","0",".","7","5","(","a",")","\"",","," ","\"","f","i","n","d","i","n","g","\"",":"," ","\"","g","a","p","\"",","," ","\"","s","e","v","e","r","i","t","y","\"",":"," ","\"","C","R","I","T","I","C","A","L","\"",","," ","\"","r","e","g","u","l","a","t","o","r","y","_","p","r","e","c","e","d","e","n","t","\"",":"," ","\"","W","L","\"","}",","," ","{","\"","s","e","v","e","r","i","t","y","\"",":"," ","\"","M","I","N","O","R","\"","}","]",",","\n"," ","\"","s","t","r","e","n","g","t","h","s","\"",":"," ","[","{","\"","c","f","r","_","c","i","t","a","t","i","o","n","\"",":"," ","\"","c","\"",","," ","\"","d","e","s","c","r","i","p","t","i","o","n","\"",":"," ","\"","d","\"","}","]",",","\n"," ","\"","p","r","i","o","r","i","t","y","_","a","c","t","i","o","n","s","\"",":"," ","[","{","\"","p","r","i","o","r","i","t","y","\"",":"," ","3",","," ","\"","a","c","t","i","o","n","\"",":"," ","\"","c","\"","}",","," ","{","\"","p","r","i","o","r","i","t","y","\"",":"," ","1",","," ","\"","a","c","t","i","o","n","\"",":"," ","\"","a","\"","}",","," ","{","\"","p","r","i","o","r","i","t","y","\"",":"," ","2",","," ","\"","a","c","t","i","o","n","\"",":"," ","\"","b","\"","}","]",",","\n"," ","\"","i","n","s","p","e","c","t","i","o","n","_","r","e","a","d","i","n","e","s","s","\"",":"," ","{","\"","c","r","i","t","i","c","a","l","_","g","a","p","s","_","c","o","u","n","t","\"",":"," ","1",","," ","\"","i","n","s","p","e","c","t","i","o","n","_","r","i","s","k","_","a","r","e","a","s","\"",":"," ","[","\"","a","\"",","," ","\"","b","\"","]","}","}">>,
    <<"{","\"","e","r","r","o","r","\"",":"," ","\"","x","\"",","," ","\"","f","i","n","d","i","n","g","s","\"",":"," ","[","{","\"","s","e","v","e","r","i","t","y","\"",":"," ","\"","M","I","N","O","R","\"","}","]","}">>,
    <<"{","\"","e","r","r","o","r","\"",":"," ","\"","x","\"","}">>,
    <<"{","\"","r","a","w","_","a","n","a","l","y","s","i","s","\"",":"," ","\"","r","\"",","," ","\"","s","t","r","e","n","g","t","h","s","\"",":"," ","[","{","\"","d","e","s","c","r","i","p","t","i","o","n","\"",":"," ","\"","d","\"","}","]","}">>,
    <<"{","\"","f","i","n","d","i","n","g","s","\"",":"," ","[","{","\"","f","i","n","d","i","n","g","\"",":"," ","\"","s","e","e"," ","<backtick>","<backtick>","<backtick>","j","s","o","n"," ","b","l","o","c","k","\"","}","]","}">>,
    <<"{","\"","p","r","i","o","r","i","t","y","_","a","c","t","i","o","n","s","\"",":"," ","[","{","\"","p","r","i","o","r","i","t","y","\"",":"," ","\"","1","\"","}",","," ","{","\"","p","r","i","o","r","i","t","y","\"",":"," ","2","}","]","}">>,
    <<"{","\"","p","r","i","o","r","i","t","y","_","a","c","t","i","o","n","s","\"",":"," ","[","{","\"","p","r","i","o","r","i","t","y","\"",":"," ","2",","," ","\"","a","c","t","i","o","n","\"",":"," ","\"","a","\"","}",","," ","{","\"","a","c","t","i","o","n","\"",":"," ","\"","b","\"","}","]","}">>,
    <<"{","\"","o","v","e","r","a","l","l","_","a","s","s","e","s","s","m","e","n","t","\"",":"," ","5","}">>,
    <<"{","\"","f","i","n","d","i","n","g","s","\"",":"," ","3","}">>,
    <<"{","\r","\n","\"","s","t","r","e","n","g","t","h","s","\"",":"," ","\"","s","\"","\r","\n","}">>,
    <<"{","\"","f","i","n","d","i","n","g","s","\"",":"," ","[","{","\"","c","f","r","_","c","i","t","a","t","i","o","n","\"",":"," ","\"","c","1","\"",","," ","\"","f","i","n","d","i","n","g","\"",":"," ","\"","f","1","\"",","," ","\"","s","e","v","e","r","i","t","y","\"",":"," ","\"","M","I","N","O","R","\"",","," ","\"","e","v","i","d","e","n","c","e","\"",":"," ","\"","q","u","o","t","e","d"," ","p","a","g","e"," ","2","\"",","," ","\"","s","e","v","e","r","i","t","y","_","j","u","s","t","i","f","i","c","a","t","i","o","n","\"",":"," ","\"","p","r","e","c","e","d","e","n","t"," ","4","8","3","\"","}",","," ","{","\"","c","f","r","_","c","i","t","a","t","i","o","n","\"",":"," ","\"","c","2","\"",","," ","\"","s","e","v","e","r","i","t","y","\"",":"," ","\"","C","R","I","T","I","C","A","L","\"",","," ","\"","r","e","c","o","m","m","e","n","d","a","t","i","o","n","\"",":"," ","\"","r","2","\"","}","]",",","\n"," ","\"","i","n","s","p","e","c","t","i","o","n","_","r","e","a","d","i","n","e","s","s","\"",":"," ","{","}",",","\n"," ","\"","s","t","r","e","n","g","t","h","s","\"",":"," ","[","]","}">> }

\* texts that are JSON but no object
NonObjectBodies == {
    <<"[","1",","," ","2","]">>, <<"[","]">>, <<"[","\"","e","r","r","o","r","\"","]">>, <<"4","2">>, <<"\"","e","r","r","o","r","\"">>, <<"\"","f","i","n","e","\"">>,
    <<"n","u","l","l">>, <<"t","r","u","e">> }

\* texts that are not JSON
InvalidBodies == {
    <<>>, <<"n","o","t"," ","j","s","o","n">>, <<"{","\"","a","\"",":">>, <<"{","\"","a","\"",":"," ","1",",","}">>, <<"{","'","a","'",":"," ","1","}">>,
    <<"{","\"","a","\"",":"," ","1","}"," ","a","s"," ","r","e","q","u","e","s","t","e","d">>,
    <<"s","e","e",":","\n","<backtick>","<backtick>","<backtick>","x"," ","="," ","1","\n","d","o","n","e">> }

Bodies == ObjectBodies \cup NonObjectBodies \cup InvalidBodies

\* a single outer fence: opening fence line, the body, closing fence line
Fenced(tag, body) == Fence \o tag \o <<"\n">> \o body \o <<"\n">> \o Fence

FenceTags == { <<>>, <<"j","s","o","n">> }

Wrapped(body) ==
    { body }
    \cup { Fenced(tag, body) : tag \in FenceTags }
    \cup { <<" "," ">> \o Fenced(<<"j","s","o","n">>, body) \o <<"\n">>,
           Fenced(<<"j","s","o","n">>, body) \o <<"\n","N","o","t","e",":"," ","s","e","e"," ","a","b","o","v","e",".">>,
           <<"H","e","r","e"," ","i","s"," ","t","h","e"," ","a","n","a","l","y","s","i","s",":","\n">> \o Fenced(<<"j","s","o","n">>, body),
           Fence \o <<"j","s","o","n"," ">> \o body \o <<" ">> \o Fence,
           Fence \o <<"j","s","o","n","\n">> \o body }

\* longest priority_actions list in PriorityBodies
MaxActions == 2

\* JSON texts of a priority: the strings and the integers of the schema line
\* "priority": "1|2|3" (validator.py 299); <<>> stands for "no priority key"
PriorityTexts ==
    { <<"\"","1","\"">>, <<"\"","2","\"">>, <<"\"","3","\"">>, <<"1">>, <<"2">>, <<"3">>, <<>> }

\* the i-th stored action, labelled a<i>
ActionText(i, p) ==
    (IF p = <<>> THEN <<"{">> ELSE <<"{","\"","p","r","i","o","r","i","t","y","\"",":"," ">> \o p \o <<","," ">>)
    \o <<"\"","a","c","t","i","o","n","\"",":"," ","\"","a">> \o NatToStr(i) \o <<"\"","}">>

RECURSIVE ActionTexts(_, _)
ActionTexts(ps, i) ==
    IF i > Len(ps) THEN <<>>
    ELSE (IF i > 1 THEN <<","," ">> ELSE <<>>) \o ActionText(i, ps[i]) \o ActionTexts(ps, i + 1)

PriorityBody(ps) == <<"{","\"","p","r","i","o","r","i","t","y","_","a","c","t","i","o","n","s","\"",":"," ","[">> \o ActionTexts(ps, 1) \o <<"]","}">>

\* objects that hold nothing but a list of priority actions
PriorityBodies ==
    { PriorityBody(ps) : ps \in UNION { [1..n -> PriorityTexts] : n \in 1..MaxActions } }

\* the highest compliance_score the schema asks for: <0-100>
MaxScore == 100

\* what may follow the score inside a schema-shaped object
ScoreTails ==
    { <<"}","}">>,
      <<","," ","\"","o","v","e","r","a","l","l","_","r","i","s","k","_","l","e","v","e","l","\"",":"," ","\"","L","O","W","\"",","," ","\"","r","e","a","d","y","_","f","o","r","_","f","d","a","_","i","n","s","p","e","c","t","i","o","n","\"",":"," ","t","r","u","e",","," ","\"","e","x","e","c","u","t","i","v","e","_","s","u","m","m","a","r","y","\"",":"," ","\"","o","k","\"","}",",","\n"," ","\"","f","i","n","d","i","n","g","s","\"",":"," ","[","{","\"","c","f","r","_","c","i","t","a","t","i","o","n","\"",":"," ","\"","c","\"",","," ","\"","f","i","n","d","i","n","g","\"",":"," ","\"","f","\"",","," ","\"","s","e","v","e","r","i","t","y","\"",":"," ","\"","M","I","N","O","R","\"","}","]","}">> }

\* an object of the schema whose compliance_score is n
ScoreBody(n, tail) ==
    <<"{","\"","o","v","e","r","a","l","l","_","a","s","s","e","s","s","m","e","n","t","\"",":"," ","{","\"","c","o","m","p","l","i","a","n","c","e","_","s","c","o","r","e","\"",":"," ">> \o NatToStr(n) \o tail

\* the responses that carry score n: the object, bare or in a json fence
ScoreResponses(n) ==
    UNION { { ScoreBody(n, tail), Fenced(<<"j","s","o","n">>, ScoreBody(n, tail)) } : tail \in ScoreTails }

Responses ==
    UNION { Wrapped(body) : body \in Bodies }
    \cup PriorityBodies
    \cup UNION { ScoreResponses(n) : n \in 0..MaxScore }

\* ---------------------------------------------------------------------
\* SpecNormalize: the parse step of validate_document and the formatter
\* applied to a provider response
\* ---------------------------------------------------------------------
InitNormalize ==
    /\ pc = "received"
    /\ raw_response \in Responses
    /\ stripped_response = <<>>
    /\ validation_results = Pending
    /\ formatted_output = Pending
    /\ regulation = <<>>
    /\ document_text = <<>>
    /\ detail_level = <<"S","t","a","n","d","a","r","d">>
    /\ reg_requirements = EmptyDict
    /\ prompt = <<>>
    /\ SessionIdle
    /\ download_json = PyNone

\* validate_document from line 386 on
NormalizeResponse ==
    /\ pc = "received"
    /\ stripped_response' = StripCodeFences(raw_response)
    /\ validation_results' = ParseResponse(raw_response)
    /\ pc' = "normalized"
    /\ UNCHANGED <<promptVars, raw_response, formatted_output, sessionVars>>

\* app.py 277: the returned results are handed to the formatter
FormatResultsForDisplay ==
    /\ pc = "normalized"
    /\ validation_results.raised = "none"
    /\ formatted_output' = format_results_for_display(validation_results.val)
    /\ pc' = "formatted"
    /\ UNCHANGED <<promptVars, raw_response, stripped_response, validation_results, sessionVars>>

\* app.py 486-492: the results that were rendered are offered as JSON
DownloadJSONData ==
    /\ pc = "formatted"
    /\ formatted_output.raised = "none"
    /\ download_json' = PyStr(json_dumps(validation_results.val, ExportIndent))
    /\ pc' = "exported"
    /\ UNCHANGED <<promptVars, responseVars, uploaded_file, session_state, run>>

NextNormalize == NormalizeResponse \/ FormatResultsForDisplay \/ DownloadJSONData

SpecNormalize == InitNormalize /\ [][NextNormalize]_vars


\* ---------------------------------------------------------------------
\* The validation session of app.py
\* ---------------------------------------------------------------------
\* app.py 265
max_chars == 50000

\* page.extract_text(): no text (None), a str, or an exception
Absent == PyNone
Broken == [t |-> "raises"]

\* what extract_text returns for the pages of the uploaded documents
PageLists ==
    { <<>>,
      << Absent >>,
      << PyStr(<<>>) >>,
      << PyStr(<<>>), Absent >>,
      << PyStr(<<"x">>), Absent, PyStr(<<"y">>) >>,
      << PyStr(<<"x">>), Broken >> }

Files == { [t |-> "file", name |-> <<"s","o","p",".","p","d","f">>, pages |-> pages] : pages \in PageLists }

\* datetime.now().strftime("%Y-%m-%d %H:%M:%S")
Timestamp == <<"2","0","2","6","-","0","1","-","0","2"," ","0","3",":","0","4",":","0","5">>

\* the options of the "Select Regulation" box (app.py 235-240)
SessionRegulations == { CFR_REQUIREMENTS[i].reg_key : i \in 1..Len(CFR_REQUIREMENTS) }

\* the "Detail Level" slider left at its value (app.py 245)
SessionDetailLevels == { <<"S","t","a","n","d","a","r","d">> }

\* lines 223-230: the preview block raises, and the script run ends there,
\* when there is no first page or its text is not a str
PreviewRaises(file) ==
    /\ file # NoFile
    /\ \/ Len(file.pages) = 0
       \/ file.pages[1].t # "str"

RECURSIVE ExtractText(_, _, _)
\* lines 257-262 from the i-th page on
ExtractText(pages, i, full_text) ==
    IF i > Len(pages) THEN [raised |-> "none", text |-> full_text]
    ELSE IF pages[i].t = "raises" THEN [raised |-> "PDFSyntaxError", text |-> full_text]
    ELSE ExtractText(pages, i + 1,
                     IF Truthy(pages[i]) THEN full_text \o pages[i].v \o <<"\n">>
                     ELSE full_text)

\* lines 265-268
Truncate(full_text) ==
    IF Len(full_text) > max_chars THEN SubSeq(full_text, 1, max_chars) ELSE full_text

\* what client.messages.create does: it raises, or returns a message with
\* its content blocks
ProviderErrors == { "AuthenticationError", "APIConnectionError" }

SessionResponses ==
    { <<"{","\"","o","v","e","r","a","l","l","_","a","s","s","e","s","s","m","e","n","t","\"",":"," ","{","\"","c","o","m","p","l","i","a","n","c","e","_","s","c","o","r","e","\"",":"," ","4","2",","," ","\"","o","v","e","r","a","l","l","_","r","i","s","k","_","l","e","v","e","l","\"",":"," ","\"","L","O","W","\"",","," ","\"","e","x","e","c","u","t","i","v","e","_","s","u","m","m","a","r","y","\"",":"," ","\"","o","k","\"","}",","," ","\"","f","i","n","d","i","n","g","s","\"",":"," ","[","{","\"","s","e","v","e","r","i","t","y","\"",":"," ","\"","M","I","N","O","R","\"","}","]","}">>,
      Fenced(<<"j","s","o","n">>, <<"n","o","t"," ","\"","j","s","o","n","\"","\n">>),
      <<"{","\"","e","r","r","o","r","\"",":"," ","\"","x","\"",","," ","\"","f","i","n","d","i","n","g","s","\"",":"," ","[","{","\"","s","e","v","e","r","i","t","y","\"",":"," ","\"","M","I","N","O","R","\"","}","]","}">>,
      <<"[","1",","," ","2","]">> }

ProviderOutcomes ==
    { [raises |-> e, content |-> <<>>] : e \in ProviderErrors }
    \cup { [raises |-> "none", content |-> <<>>] }
    \cup { [raises |-> "none", content |-> << text >>] : text \in SessionResponses }

\* validate_document was not called
NotCalled ==
    [prompt |-> <<>>, provider_calls |-> 0, raw_response |-> <<>>,
     stripped_response |-> <<>>, normalized |-> FALSE, result |-> Pending]

\* validate_document(document_text, regulation, detail_level) with a provider
\* that behaves as `outcome` says (validator.py 353-415)
validate_document(document, reg, level, outcome) ==
    LET called == [NotCalled EXCEPT
                      !.prompt = build_enhanced_prompt(document, reg, level),
                      !.provider_calls = 1]
    IN  IF outcome.raises # "none"
        THEN [called EXCEPT !.result = Raised(outcome.raises)]
        ELSE IF outcome.content = <<>>
        THEN [called EXCEPT !.result = Raised("IndexError")]
        ELSE [called EXCEPT !.raw_response = outcome.content[1],
                            !.stripped_response = StripCodeFences(outcome.content[1]),
                            !.normalized = TRUE,
                            !.result = ParseResponse(outcome.content[1])]

\* faulty variant: the record is stored without the text report
StoredRecord_NoReport(results, formatted, file_name, reg) ==
    PyDict(<< << <<"s","t","r","u","c","t","u","r","e","d","_","r","e","s","u","l","t","s">>, results >>,
              << <<"f","i","l","e","_","n","a","m","e">>, PyStr(file_name) >>,
              << <<"r","e","g","u","l","a","t","i","o","n">>, PyStr(reg) >>,
              << <<"t","i","m","e","s","t","a","m","p">>, PyStr(Timestamp) >> >>)

\* lines 280-286
StoredRecord(results, formatted, file_name, reg) ==
    PyDict(<< << <<"s","t","r","u","c","t","u","r","e","d","_","r","e","s","u","l","t","s">>, results >>,
              << <<"f","o","r","m","a","t","t","e","d","_","o","u","t","p","u","t">>, formatted >>,
              << <<"f","i","l","e","_","n","a","m","e">>, PyStr(file_name) >>,
              << <<"r","e","g","u","l","a","t","i","o","n">>, PyStr(reg) >>,
              << <<"t","i","m","e","s","t","a","m","p">>, PyStr(Timestamp) >> >>)

\* faulty variant: the except branch also drops the stored result
ExceptBranch_ClearsResult(exc, before) == [session |-> PyNone, errors |-> << exc >>]

\* lines 291-295: st.error once; st.session_state is not touched
ExceptBranch(exc, before) == [session |-> before, errors |-> << exc >>]

\* the script's locals when the handler has not reached them
NoLocals ==
    [document_text |-> <<>>, regulation |-> <<>>, detail_level |-> <<>>,
     reg_requirements |-> EmptyDict, prompt |-> <<>>, raw_response |-> <<>>,
     stripped_response |-> <<>>, validation_results |-> Pending,
     formatted_output |-> Pending]

\* the validate button handler (lines 250-295) for one click: `extraction`
\* is what lines 257-262 yield, `call` what validate_document does with the
\* truncated text and `formatted` what the formatter does with its result
ValidateClicked(file, reg, level, api_key, before, extraction, call, formatted) ==
    LET started   == [NoRun EXCEPT !.action = "validate", !.api_key = api_key,
                                   !.before = before]
        selected  == [NoLocals EXCEPT !.regulation = reg, !.detail_level = level]
        extracted == [started EXCEPT
                         !.extracted = TRUE,
                         !.warnings = IF Len(extraction.text) > max_chars
                                      THEN << "truncated" >> ELSE <<>>]
        called    == [extracted EXCEPT !.prompt_built = TRUE,
                                       !.provider_calls = call.provider_calls,
                                       !.normalized = call.normalized]
        sent      == [selected EXCEPT
                         !.document_text = Truncate(extraction.text),
                         !.reg_requirements = get_regulation_requirements(reg),
                         !.prompt = call.prompt,
                         !.raw_response = call.raw_response,
                         !.stripped_response = call.stripped_response,
                         !.validation_results = call.result]
    IN  IF ~api_key
        THEN \* get_api_key: st.error and st.stop()
             [locals |-> selected, session |-> before, stopped |-> TRUE,
              run |-> [started EXCEPT !.errors = << "No API key found." >>]]
        ELSE IF extraction.raised # "none"
        THEN [locals |-> selected, stopped |-> FALSE,
              session |-> ExceptBranch(extraction.raised, before).session,
              run |-> [started EXCEPT
                          !.errors = ExceptBranch(extraction.raised, before).errors]]
        ELSE IF call.result.raised # "none"
        THEN [locals |-> sent, stopped |-> FALSE,
              session |-> ExceptBranch(call.result.raised, before).session,
              run |-> [called EXCEPT
                          !.errors = ExceptBranch(call.result.raised, before).errors]]
        ELSE IF formatted.raised # "none"
        THEN [locals |-> [sent EXCEPT !.formatted_output = formatted], stopped |-> FALSE,
              session |-> ExceptBranch(formatted.raised, before).session,
              run |-> [called EXCEPT
                          !.rendered = TRUE,
                          !.errors = ExceptBranch(formatted.raised, before).errors]]
        ELSE [locals |-> [sent EXCEPT !.formatted_output = formatted], stopped |-> FALSE,
              session |-> StoredRecord(call.result.val, formatted.val, file.name, reg),
              run |-> [called EXCEPT !.rendered = TRUE, !.stored = TRUE]]

\* lines 298-303 and 486-492: the data of the JSON download button, when the
\* script run gets to the results
DownloadData(stopped, stored) ==
    IF stopped \/ ~Truthy(stored) THEN PyNone
    ELSE PyStr(json_dumps(Get(stored, <<"s","t","r","u","c","t","u","r","e","d","_","r","e","s","u","l","t","s">>, PyDict(<<>>)), ExportIndent))

InitSession ==
    /\ pc = "session"
    /\ regulation = <<>>
    /\ document_text = <<>>
    /\ detail_level = <<>>
    /\ reg_requirements = EmptyDict
    /\ prompt = <<>>
    /\ raw_response = <<>>
    /\ stripped_response = <<>>
    /\ validation_results = Pending
    /\ formatted_output = Pending
    /\ SessionIdle
    /\ download_json = PyNone

\* one click on "Validate Compliance": the handler, then the rest of the
\* script run (or of the rerun after st.rerun()), which shows stored results
ValidateCompliance ==
    /\ pc = "session"
    /\ \E file \in Files, reg \in SessionRegulations, level \in SessionDetailLevels,
          api_key \in BOOLEAN, outcome \in ProviderOutcomes :
          /\ ~PreviewRaises(file)
          /\ \E extraction \in { ExtractText(file.pages, 1, <<>>) } :
             \E call \in (IF api_key /\ extraction.raised = "none"
                          THEN { validate_document(Truncate(extraction.text), reg, level,
                                                   outcome) }
                          ELSE { NotCalled }) :
             \E formatted \in (IF call.result.raised = "none"
                               THEN { format_results_for_display(call.result.val) }
                               ELSE { Pending }) :
             \E h \in { ValidateClicked(file, reg, level, api_key,
                                        session_state.validation_results,
                                        extraction, call, formatted) } :
                 /\ uploaded_file' = file
                 /\ regulation' = h.locals.regulation
                 /\ document_text' = h.locals.document_text
                 /\ detail_level' = h.locals.detail_level
                 /\ reg_requirements' = h.locals.reg_requirements
                 /\ prompt' = h.locals.prompt
                 /\ raw_response' = h.locals.raw_response
                 /\ stripped_response' = h.locals.stripped_response
                 /\ validation_results' = h.locals.validation_results
                 /\ formatted_output' = h.locals.formatted_output
                 /\ session_state' = [session_state EXCEPT !.validation_results = h.session]
                 /\ run' = h.run
                 /\ download_json' = DownloadData(h.stopped, h.session)
    /\ pc' = pc

\* one click on "Analyze Another Document" (lines 495-497), shown with the
\* results of a script run that got that far
AnalyzeAnotherDocument ==
    /\ pc = "session"
    /\ Truthy(session_state.validation_results)
    /\ \E file \in Files \cup { NoFile } :
          /\ ~PreviewRaises(file)
          /\ uploaded_file' = file
    /\ session_state' = [session_state EXCEPT !.validation_results = PyNone]
    /\ run' = [NoRun EXCEPT !.action = "analyze_another",
                            !.before = session_state.validation_results]
    /\ download_json' = PyNone
    /\ regulation' = <<>>
    /\ document_text' = <<>>
    /\ detail_level' = <<>>
    /\ reg_requirements' = EmptyDict
    /\ prompt' = <<>>
    /\ raw_response' = <<>>
    /\ stripped_response' = <<>>
    /\ validation_results' = Pending
    /\ formatted_output' = Pending
    /\ pc' = pc

Next == ValidateCompliance \/ AnalyzeAnotherDocument

Spec == InitSession /\ [][Next]_vars

\* ---------------------------------------------------------------------
\* Properties of the catalog lookup and the prompt builder (SpecPrompt)
\* ---------------------------------------------------------------------
\* a is b[i..j] for some i, j
IsSubstringOf(a, b) ==
    \E i \in 1..(Len(b) - Len(a) + 1) : SubSeq(b, i, i + Len(a) - 1) = a

KeyOf(i) == CFR_REQUIREMENTS[i].reg_key
Key_820_75 == Reg_820_75.reg_key

LookedUp == pc \in {"looked_up", "built"}

\* C1 (as amended): an identifier that is a substring of a catalog key (the
\* containment runs from the identifier into the key) resolves to the spec of
\* the first such key in catalog order; an identifier that is a substring of
\* no key yields the empty result.
C1_LookupByIdentifierInKey ==
    LookedUp =>
        LET hits == { i \in 1..Len(CFR_REQUIREMENTS) : IsSubstringOf(regulation, KeyOf(i)) }
        IN  IF hits = {}
            THEN reg_requirements = EmptyDict
            ELSE reg_requirements = CFR_REQUIREMENTS[Min(hits)].reg_data

\* C1 as stated: an identifier that contains a catalog key resolves to that
\* key's spec, and an identifier that contains no key yields the empty result.
C1_LookupByKeyInIdentifier ==
    LookedUp =>
        /\ \A i \in 1..Len(CFR_REQUIREMENTS) :
              IsSubstringOf(KeyOf(i), regulation)
                  => reg_requirements = CFR_REQUIREMENTS[i].reg_data
        /\ (\A i \in 1..Len(CFR_REQUIREMENTS) : ~IsSubstringOf(KeyOf(i), regulation))
              => reg_requirements = EmptyDict

\* a proper, non-empty part of a key has been looked up and resolved
C1_Witness ==
    /\ pc = "looked_up"
    /\ regulation = <<"8","2","0",".","7","5">>
    /\ reg_requirements = Reg_820_75.reg_data

IsDetailedPrompt(p) == StartsWith(p, DetailedPreamble)

\* the output-schema block of a prompt: the text between the "... format:"
\* line and the closing instructions
SchemaBlockOf(p) ==
    IF IsDetailedPrompt(p)
    THEN SubSeq(p, Len(p) - Len(DetailedImportant) - Len(DetailedSchema) + 1,
                   Len(p) - Len(DetailedImportant))
    ELSE SubSeq(p, Len(p) - Len(BasicTail) - Len(BasicSchema) + 1,
                   Len(p) - Len(BasicTail))

\* C2: when the lookup yields no spec, the prompt is the output of
\* _build_basic_prompt, not the detailed prompt, and its schema block names
\* overall_assessment and findings but none of inspection_readiness,
\* priority_actions, strengths.
C2_FallbackRouting ==
    (pc = "built" /\ reg_requirements = EmptyDict) =>
        /\ prompt = _build_basic_prompt(document_text, regulation, detail_level)
        /\ ~IsDetailedPrompt(prompt)
        /\ PyIn(<<"\"","o","v","e","r","a","l","l","_","a","s","s","e","s","s","m","e","n","t","\"">>, SchemaBlockOf(prompt))
        /\ PyIn(<<"\"","f","i","n","d","i","n","g","s","\"">>, SchemaBlockOf(prompt))
        /\ ~PyIn(<<"i","n","s","p","e","c","t","i","o","n","_","r","e","a","d","i","n","e","s","s">>, SchemaBlockOf(prompt))
        /\ ~PyIn(<<"p","r","i","o","r","i","t","y","_","a","c","t","i","o","n","s">>, SchemaBlockOf(prompt))
        /\ ~PyIn(<<"s","t","r","e","n","g","t","h","s">>, SchemaBlockOf(prompt))

\* an unknown identifier was routed to the fallback, with a document that
\* itself mentions the three field names
C2_Witness ==
    /\ pc = "built"
    /\ reg_requirements = EmptyDict
    /\ regulation = <<"2","1"," ","C","F","R"," ","P","a","r","t"," ","9","9","9",".","9","9"," ","-"," ","M","a","d","e"," ","U","p">>
    /\ PyIn(<<"i","n","s","p","e","c","t","i","o","n","_","r","e","a","d","i","n","e","s","s">>, prompt)

RECURSIVE SubsectionNeedles(_, _)
\* key, requirement and key elements of the subsections from the i-th on
SubsectionNeedles(subsections, i) ==
    IF i > Len(subsections) THEN <<>>
    ELSE <<subsections[i].subsection, subsections[i].details.requirement>>
         \o subsections[i].details.key_elements
         \o SubsectionNeedles(subsections, i + 1)

RECURSIVE InOrderFrom(_, _, _, _)
\* needles[k..] occur in s one after the other, at or after offset from
InOrderFrom(s, needles, k, from) ==
    IF k > Len(needles) THEN TRUE
    ELSE /\ \E i \in from..(Len(s) - Len(needles[k])) : MatchAt(s, needles[k], i)
         /\ LET i == CHOOSE i \in from..(Len(s) - Len(needles[k])) : MatchAt(s, needles[k], i)
            IN  InOrderFrom(s, needles, k + 1, i + Len(needles[k]))

\* C3: the prompt built for a known RegulationSpec contains every subsection
\* key, requirement and key element verbatim, subsections in catalog order
\* and key elements in list order.
C3_SchemaCoverage ==
    (pc = "built" /\ reg_requirements # EmptyDict) =>
        InOrderFrom(prompt, SubsectionNeedles(reg_requirements.subsections, 1), 1, 0)

\* the prompt of the nine-subsection regulation has been built
C3_Witness ==
    /\ pc = "built"
    /\ reg_requirements = Reg_820_70.reg_data
    /\ Len(reg_requirements.subsections) = 9
    /\ PyIn(<<" "," ","-"," ","C","h","a","n","g","e"," ","c","o","n","t","r","o","l"," ","f","o","r"," ","a","u","t","o","m","a","t","i","o","n","\n">>, prompt)

\* C4 (as amended): the prompt built for "21 CFR Part 820.75 - Process
\* Validation" contains the subsection key "820.75(a)" and the phrase
\* "High degree of assurance" with a capital H; the all-lower-case phrase
\* "high degree of assurance" is in the prompt only when the document text
\* contains it.
C4_ProcessValidationPrompt ==
    (pc = "built" /\ regulation = Key_820_75) =>
        /\ PyIn(<<"8","2","0",".","7","5","(","a",")">>, prompt)
        /\ PyIn(<<"H","i","g","h"," ","d","e","g","r","e","e"," ","o","f"," ","a","s","s","u","r","a","n","c","e">>, prompt)
        /\ PyIn(<<"h","i","g","h"," ","d","e","g","r","e","e"," ","o","f"," ","a","s","s","u","r","a","n","c","e">>, prompt)
              <=> PyIn(<<"h","i","g","h"," ","d","e","g","r","e","e"," ","o","f"," ","a","s","s","u","r","a","n","c","e">>, document_text)

\* C4 as stated: for any document text the prompt contains "820.75(a)" and
\* the exact lower-case phrase "high degree of assurance".
C4_LowerCasePhrase ==
    (pc = "built" /\ regulation = Key_820_75) =>
        /\ PyIn(<<"8","2","0",".","7","5","(","a",")">>, prompt)
        /\ PyIn(<<"h","i","g","h"," ","d","e","g","r","e","e"," ","o","f"," ","a","s","s","u","r","a","n","c","e">>, prompt)

\* the Process Validation prompt was built for a document without the phrase
C4_Witness ==
    /\ pc = "built"
    /\ regulation = Key_820_75
    /\ document_text = <<"x">>
    /\ PyIn(<<" "," ","-"," ","H","i","g","h"," ","d","e","g","r","e","e"," ","o","f"," ","a","s","s","u","r","a","n","c","e"," ","e","s","t","a","b","l","i","s","h","e","d","\n">>, prompt)

\* the detail qualifier as the prompt words it
QualifierIn(p, level) == IF IsDetailedPrompt(p) THEN level ELSE Lower(level)

\* p1 and p2 are the same text around the qualifiers q1 and q2
DifferOnlyIn(p1, p2, q1, q2) ==
    \E a \in 0..(Len(p1) - Len(q1)) :
        /\ MatchAt(p1, q1, a)
        /\ MatchAt(p2, q2, a)
        /\ SubSeq(p1, 1, a) = SubSeq(p2, 1, a)
        /\ SubSeq(p1, a + Len(q1) + 1, Len(p1)) = SubSeq(p2, a + Len(q2) + 1, Len(p2))

\* C5: for the same document text and regulation identifier, the prompt of
\* any other detail level has the same routing and the same schema block and
\* differs from this one only in the detail qualifier.
C5_DetailLevelIndependence ==
    pc = "built" =>
        \A other \in DetailLevels :
            LET p2 == build_enhanced_prompt(document_text, regulation, other)
            IN  /\ IsDetailedPrompt(p2) = IsDetailedPrompt(prompt)
                /\ SchemaBlockOf(p2) = SchemaBlockOf(prompt)
                /\ DifferOnlyIn(prompt, p2, QualifierIn(prompt, detail_level),
                                QualifierIn(p2, other))

\* a detailed prompt was built at a level other than the default
C5_Witness ==
    /\ pc = "built"
    /\ detail_level = <<"C","o","m","p","r","e","h","e","n","s","i","v","e">>
    /\ reg_requirements # EmptyDict
    /\ PyIn(<<"(","C","o","m","p","r","e","h","e","n","s","i","v","e"," ","l","e","v","e","l",")">>, prompt)

\* ---------------------------------------------------------------------
\* Properties of the parse step and the formatter (SpecNormalize)
\* ---------------------------------------------------------------------
Normalized == pc \in {"normalized", "formatted"}

\* the text json.loads was given did not parse
ParseFailed == json_loads(StripCodeFences(raw_response)).raised = "JSONDecodeError"

Results == validation_results.val

\* C6: a JSON object text J inside a single outer fence (opening fence line,
\* tagged json or not, then J, then a closing fence line) normalizes to the
\* same result as J alone, and that result is the parsed object.
C6_FenceStrippingIdempotence ==
    Normalized =>
        \A J \in ObjectBodies : \A tag \in FenceTags :
            raw_response = Fenced(tag, J) =>
                /\ validation_results = ParseResponse(J)
                /\ validation_results = json_loads(J)
                /\ IsDict(Results)

\* a fenced, pretty-printed object of several lines was normalized
C6_Witness ==
    /\ pc = "normalized"
    /\ \E J \in ObjectBodies :
          /\ raw_response = Fenced(<<"j","s","o","n">>, J)
          /\ Len(SplitLines(J)) > 3
    /\ IsDict(Results)
    /\ HasKey(Results, <<"f","i","n","d","i","n","g","s">>)

C8_RawTextPreserved ==
    (Normalized /\ ParseFailed) =>
        /\ IsDict(Results)
        /\ HasKey(Results, <<"r","a","w","_","a","n","a","l","y","s","i","s">>)
        /\ Item(Results, <<"r","a","w","_","a","n","a","l","y","s","i","s">>) = PyStr(raw_response)

\* the fields of a structured result
StructuredKeys ==
    { <<"f","i","n","d","i","n","g","s">>, <<"s","t","r","e","n","g","t","h","s">>, <<"p","r","i","o","r","i","t","y","_","a","c","t","i","o","n","s">>, <<"i","n","s","p","e","c","t","i","o","n","_","r","e","a","d","i","n","e","s","s">> }

\* C9: whatever the provider returned, the step yields a result record (the
\* full structured one or the degraded one), and rendering it with
\* format_results_for_display raises nothing.
C9_SingleResultShape ==
    /\ Normalized => (validation_results.raised = "none" /\ IsDict(Results))
    /\ pc = "formatted" => formatted_output.raised = "none"

\* C10: error and raw_analysis are present only in the degraded result of a
\* failed parse, and no returned result carries an error marker together
\* with findings, strengths, priority_actions or inspection_readiness.
C10_ErrorMarkerExclusive ==
    (/\ Normalized
     /\ IsDict(Results)
     /\ HasKey(Results, <<"e","r","r","o","r">>) \/ HasKey(Results, <<"r","a","w","_","a","n","a","l","y","s","i","s">>)) =>
        /\ ParseFailed
        /\ \A key \in StructuredKeys : ~HasKey(Results, key)

\* ---------------------------------------------------------------------
\* Properties of the text report (SpecNormalize)
\* ---------------------------------------------------------------------
Formatted == pc = "formatted"

\* the report text, when the formatter returned a str
Report == formatted_output.val.v

\* the formatter returned the sections of a structured (non-error) result
Rendered ==
    /\ Formatted
    /\ IsDict(Results)
    /\ ~HasKey(Results, <<"e","r","r","o","r">>)
    /\ formatted_output.raised = "none"

\* offset of the first occurrence of sub in s, -1 when there is none
IndexIn(s, sub) ==
    IF PyIn(sub, s)
    THEN CHOOSE i \in 0..(Len(s) - Len(sub)) :
            MatchAt(s, sub, i) /\ \A k \in 0..(i - 1) : ~MatchAt(s, sub, k)
    ELSE 0 - 1

\* the priority values the schema line "priority": "1|2|3" names
SchemaPriorities == { PyStr(NatToStr(n)) : n \in 1..3 }

\* an action as the schema asks for it, or one without a priority
SchemaAction(action) ==
    /\ IsDict(action)
    /\ HasKey(action, <<"p","r","i","o","r","i","t","y">>) => Item(action, <<"p","r","i","o","r","i","t","y">>) \in SchemaPriorities

\* place in the ascending order; an action without priority comes last
Rank(action) ==
    IF HasKey(action, <<"p","r","i","o","r","i","t","y">>)
    THEN CHOOSE n \in 1..3 : Item(action, <<"p","r","i","o","r","i","t","y">>) = PyStr(NatToStr(n))
    ELSE 4

\* the report line that names an action
ActionLine(action) ==
    <<"\n","A","c","t","i","o","n",":"," ">> \o Str(Get(action, <<"a","c","t","i","o","n">>, NA)) \o <<"\n">>

\* C11: for a priority_actions list whose priorities are the values the
\* prompt's schema asks for ("1", "2", "3") or are missing, the formatter
\* returns a report that lists the actions in ascending priority whatever
\* the stored order, every action without a priority after all that have one.
C11_PriorityOrdering ==
    (/\ Formatted
     /\ IsDict(Results)
     /\ ~HasKey(Results, <<"e","r","r","o","r">>)
     /\ HasKey(Results, <<"p","r","i","o","r","i","t","y","_","a","c","t","i","o","n","s">>)
     /\ Item(Results, <<"p","r","i","o","r","i","t","y","_","a","c","t","i","o","n","s">>).t = "list"
     /\ \A i \in 1..Len(Item(Results, <<"p","r","i","o","r","i","t","y","_","a","c","t","i","o","n","s">>).v) :
           SchemaAction(Item(Results, <<"p","r","i","o","r","i","t","y","_","a","c","t","i","o","n","s">>).v[i])) =>
        LET actions == Item(Results, <<"p","r","i","o","r","i","t","y","_","a","c","t","i","o","n","s">>).v
        IN  /\ formatted_output.raised = "none"
            /\ \A i, j \in 1..Len(actions) :
                  Rank(actions[i]) < Rank(actions[j]) =>
                     /\ IndexIn(Report, ActionLine(actions[i])) >= 0
                     /\ IndexIn(Report, ActionLine(actions[i]))
                           < IndexIn(Report, ActionLine(actions[j]))

\* the heading of a report section: a rule, the title, a rule
Header(title) == Rule \o <<"\n">> \o title \o <<"\n">> \o Rule

AssessmentHeader == Header(<<"O","V","E","R","A","L","L"," ","C","O","M","P","L","I","A","N","C","E"," ","A","S","S","E","S","S","M","E","N","T">>)
ReadinessHeader == Header(<<"I","N","S","P","E","C","T","I","O","N"," ","R","E","A","D","I","N","E","S","S"," ","S","U","M","M","A","R","Y">>)
FindingsHeader == Header(<<"D","E","T","A","I","L","E","D"," ","F","I","N","D","I","N","G","S">>)
StrengthsHeader == Header(<<"C","O","M","P","L","I","A","N","C","E"," ","S","T","R","E","N","G","T","H","S">>)
ActionsHeader == Header(<<"P","R","I","O","R","I","T","Y"," ","A","C","T","I","O","N","S">>)

SectionHeaders ==
    << AssessmentHeader, ReadinessHeader, FindingsHeader, StrengthsHeader, ActionsHeader >>

Assessment == Get(Results, <<"o","v","e","r","a","l","l","_","a","s","s","e","s","s","m","e","n","t">>, PyDict(<<>>))

StoredFindings == Elements(Get(Results, <<"f","i","n","d","i","n","g","s">>, PyList(<<>>)))

\* the text of the report from the heading line of the i-th finding on
FindingBlock(i) ==
    SubSeq(Report, IndexIn(Report, <<"\n","[">> \o IntToStr(i) \o <<"]"," ">>) + 1, Len(Report))

\* the labels of the gap counts and the keys they render
GapCounts ==
    { <<<<"c","r","i","t","i","c","a","l","_","g","a","p","s","_","c","o","u","n","t">>, <<"C","r","i","t","i","c","a","l"," ","G","a","p","s",":"," ">>>>,
      <<<<"m","a","j","o","r","_","g","a","p","s","_","c","o","u","n","t">>, <<"M","a","j","o","r"," ","G","a","p","s",":"," ">>>>,
      <<<<"m","i","n","o","r","_","g","a","p","s","_","c","o","u","n","t">>, <<"M","i","n","o","r"," ","G","a","p","s",":"," ">>>> }

\* the text fields of a finding that the report renders, with their labels
FindingFields ==
    { <<<<"r","e","q","u","i","r","e","m","e","n","t","_","d","e","s","c","r","i","p","t","i","o","n">>, <<"R","e","q","u","i","r","e","m","e","n","t",":"," ">>>>,
      <<<<"f","i","n","d","i","n","g">>, <<"F","i","n","d","i","n","g",":"," ">>>>,
      <<<<"r","i","s","k","_","t","o","_","c","o","m","p","l","i","a","n","c","e">>, <<"R","i","s","k",":"," ">>>>,
      <<<<"r","e","c","o","m","m","e","n","d","a","t","i","o","n">>, <<"R","e","c","o","m","m","e","n","d","a","t","i","o","n",":"," ">>>> }

\* the fields of a finding that the schema names and the report leaves out
UnrenderedFindingFields == { <<"e","v","i","d","e","n","c","e">>, <<"s","e","v","e","r","i","t","y","_","j","u","s","t","i","f","i","c","a","t","i","o","n">> }

FindingHeading(i) ==
    <<"\n","[">> \o IntToStr(i) \o <<"]"," ">>
        \o Str(Get(StoredFindings[i], <<"c","f","r","_","c","i","t","a","t","i","o","n">>, NA))
        \o <<" ","-"," ">> \o Str(Get(StoredFindings[i], <<"s","e","v","e","r","i","t","y">>, NA)) \o <<"\n">>

\* the section headings that appear in the report, in the order the claim
\* names, with the finding headings in stored order after the findings' one
HeadingsInOrder ==
    << AssessmentHeader >>
    \o (IF PyIn(ReadinessHeader, Report) THEN << ReadinessHeader >> ELSE <<>>)
    \o (IF PyIn(FindingsHeader, Report)
        THEN << FindingsHeader >> \o [i \in 1..Len(StoredFindings) |-> FindingHeading(i)]
        ELSE <<>>)
    \o (IF PyIn(StrengthsHeader, Report) THEN << StrengthsHeader >> ELSE <<>>)
    \o (IF PyIn(ActionsHeader, Report) THEN << ActionsHeader >> ELSE <<>>)

\* C13: in the report of a structured result the sections that appear come
\* in the order Overall Assessment, Inspection Readiness, Detailed Findings,
\* Strengths, Priority Actions, and the findings are listed in stored order,
\* numbered from 1.
C13_FixedSectionOrder ==
    Rendered =>
        /\ StartsWith(Report, AssessmentHeader)
        /\ InOrderFrom(Report, HeadingsInOrder, 1, 0)
        /\ \A i \in 1..Len(StoredFindings) : PyIn(FindingHeading(i), Report)
        /\ ~PyIn(<<"\n","[">> \o IntToStr(Len(StoredFindings) + 1) \o <<"]"," ">>, Report)
        /\ ~PyIn(<<"\n","[","0","]"," ">>, Report)

\* a result with all five sections and two findings, the first of them not
\* the less severe one, was rendered
C13_Witness ==
    /\ Rendered
    /\ \A k \in 1..Len(SectionHeaders) : PyIn(SectionHeaders[k], Report)
    /\ Len(StoredFindings) = 2
    /\ Item(StoredFindings[1], <<"s","e","v","e","r","i","t","y">>) = PyStr(<<"C","R","I","T","I","C","A","L">>)
    /\ Item(StoredFindings[2], <<"s","e","v","e","r","i","t","y">>) = PyStr(<<"M","I","N","O","R">>)
    /\ IndexIn(Report, FindingHeading(1)) < IndexIn(Report, FindingHeading(2))

\* C18: a response that is a schema-shaped JSON object (bare or in a json
\* fence) whose overall_assessment.compliance_score is an integer n in 0..100
\* normalizes to a result with compliance_score = n, and the report of that
\* result contains "Compliance Score: n%".
C18_ScorePassThrough ==
    \A n \in 0..MaxScore :
        raw_response \in ScoreResponses(n) =>
            /\ Normalized =>
                  /\ validation_results.raised = "none"
                  /\ IsDict(Results)
                  /\ Item(Assessment, <<"c","o","m","p","l","i","a","n","c","e","_","s","c","o","r","e">>) = PyInt(n)
            /\ Formatted =>
                  /\ formatted_output.raised = "none"
                  /\ formatted_output.val.t = "str"
                  /\ PyIn(<<"C","o","m","p","l","i","a","n","c","e"," ","S","c","o","r","e",":"," ">> \o IntToStr(n) \o <<"%">>, Report)
                  /\ \A k \in 0..MaxScore :
                        k # n => ~PyIn(<<"C","o","m","p","l","i","a","n","c","e"," ","S","c","o","r","e",":"," ">> \o IntToStr(k) \o <<"%">>, Report)

\* the score 42 of a fenced response with findings reached the report
C18_Witness ==
    /\ Formatted
    /\ raw_response \in ScoreResponses(42)
    /\ StartsWith(raw_response, Fence)
    /\ HasKey(Results, <<"f","i","n","d","i","n","g","s">>)
    /\ Item(Assessment, <<"c","o","m","p","l","i","a","n","c","e","_","s","c","o","r","e">>) = PyInt(42)
    /\ PyIn(<<"\n","C","o","m","p","l","i","a","n","c","e"," ","S","c","o","r","e",":"," ","4","2","%","\n">>, Report)

\* C20: for a result that contains an error key the formatter returns
\* exactly the result's raw_analysis value, or "Analysis failed" when there
\* is none, and no report section: the score 0, the UNKNOWN risk level and
\* the summary of the degraded result are not in the text.
C20_ErrorMarkedRendering ==
    (Formatted /\ IsDict(Results) /\ HasKey(Results, <<"e","r","r","o","r">>)) =>
        /\ formatted_output.raised = "none"
        /\ HasKey(Results, <<"r","a","w","_","a","n","a","l","y","s","i","s">>) =>
              formatted_output.val = Item(Results, <<"r","a","w","_","a","n","a","l","y","s","i","s">>)
        /\ ~HasKey(Results, <<"r","a","w","_","a","n","a","l","y","s","i","s">>) =>
              formatted_output.val = PyStr(<<"A","n","a","l","y","s","i","s"," ","f","a","i","l","e","d">>)
        /\ formatted_output.val.t = "str" =>
              /\ \A k \in 1..Len(SectionHeaders) : ~PyIn(SectionHeaders[k], Report)
              /\ ~PyIn(<<"C","o","m","p","l","i","a","n","c","e"," ","S","c","o","r","e">>, Report)
              /\ ~PyIn(<<"U","N","K","N","O","W","N">>, Report)
              /\ ~PyIn(ParseFailureSummary, Report)
        /\ ParseFailed => formatted_output.val = PyStr(stripped_response)

\* the degraded result of a response that did not parse was rendered as its
\* raw text
C20_Witness ==
    /\ Formatted
    /\ ParseFailed
    /\ HasKey(Results, <<"e","r","r","o","r">>)
    /\ Item(Assessment, <<"o","v","e","r","a","l","l","_","r","i","s","k","_","l","e","v","e","l">>) = PyStr(<<"U","N","K","N","O","W","N">>)
    /\ stripped_response # <<>>
    /\ formatted_output = Returned(PyStr(stripped_response))


\* ---------------------------------------------------------------------
\* Properties of the JSON export (SpecNormalize)
\* ---------------------------------------------------------------------
Exported == pc = "exported"

\* C17: the JSON text offered for download, parsed back with json.loads, is
\* the result that validate_document returned, field for field: same keys in
\* the same order, same values of the same types, at every depth.
C17_JsonRoundTrip ==
    Exported =>
        /\ download_json.t = "str"
        /\ json_loads(download_json.v) = Returned(Results)
        /\ json_loads(download_json.v) = validation_results

\* a degraded result whose raw_analysis holds quotes and a line break was
\* exported, and the export escapes them
C17_Witness ==
    /\ Exported
    /\ ParseFailed
    /\ PyIn(<<"\"">>, Item(Results, <<"r","a","w","_","a","n","a","l","y","s","i","s">>).v)
    /\ PyIn(<<"\n">>, Item(Results, <<"r","a","w","_","a","n","a","l","y","s","i","s">>).v)
    /\ PyIn(<<"\\","\"">>, download_json.v)
    /\ PyIn(<<"\\","n">>, download_json.v)
    /\ PyIn(<<"{","\n"," "," ","\"","o","v","e","r","a","l","l","_","a","s","s","e","s","s","m","e","n","t","\"",":"," ","{","\n"," "," "," "," ","\"","c","o","m","p","l","i","a","n","c","e","_","s","c","o","r","e","\"",":"," ","0",",">>, download_json.v)


\* ---------------------------------------------------------------------
\* Properties of fence stripping (SpecNormalize)
\* ---------------------------------------------------------------------
\* a line that is exactly a fence marker, tagged json or not
ExactFence(line) == Strip(line) \in { Fence, Fence \o <<"j","s","o","n">> }

\* str.endswith
EndsWith(s, suffix) == MatchAt(s, suffix, Len(s) - Len(suffix))

\* the content of a line that shares the line with fence markers
Unfenced(line) ==
    LET s     == Strip(line)
        first == IF StartsWith(s, Fence \o <<"j","s","o","n">>) THEN Len(Fence) + 5
                 ELSE IF StartsWith(s, Fence) THEN Len(Fence) + 1
                 ELSE 1
        last  == IF EndsWith(s, Fence) /\ Len(s) - Len(Fence) >= first
                 THEN Len(s) - Len(Fence)
                 ELSE Len(s)
    IN  Strip(SubSeq(s, first, last))

\* C19: for a response that begins with a fence marker, every line between
\* the opening fence line and the closing fence line (the lines that are
\* exactly a fence marker) is in the stripped text, unchanged and in order,
\* also a line that starts with fence-like text; and when fence and content
\* share a line, so that no line is exactly a fence marker, the content of
\* every line is still in the stripped text.
C19_VerbatimFenceStripping ==
    (Normalized /\ StartsWith(Strip(raw_response), Fence)) =>
        LET lines  == SplitLines(raw_response)
            fences == { i \in 1..Len(lines) : ExactFence(lines[i]) }
        IN  IF fences = {}
            THEN \A i \in 1..Len(lines) : PyIn(Unfenced(lines[i]), stripped_response)
            ELSE LET open  == Min(fences)
                     close == IF Max(fences) > open THEN Max(fences) ELSE Len(lines) + 1
                 IN  PyIn(JoinLines(SubSeq(lines, open + 1, close - 1), 1),
                          stripped_response)


\* ---------------------------------------------------------------------
\* Properties of the validation session (Spec)
\* ---------------------------------------------------------------------
Stored == session_state.validation_results

\* the last script run handled a click on the validate button and got past
\* the API key
Validated == run.action = "validate" /\ run.api_key

\* extraction yields no text: every page returns empty or absent text
NoExtractableText(file) ==
    /\ file # NoFile
    /\ \A i \in 1..Len(file.pages) :
          file.pages[i].t = "None" \/ (file.pages[i].t = "str" /\ file.pages[i].v = <<>>)

\* the signals of a run that name the missing text
NoTextSignals ==
    { i \in 1..Len(run.warnings) : run.warnings[i] = "no extractable text" }
    \cup { i \in 1..Len(run.errors) : run.errors[i] = "no extractable text" }

\* C14: when text extraction of the uploaded document yields no text, a
\* validation action builds no prompt, calls the provider zero times, stores
\* no result and ends with a "no extractable text" signal.
C14_EmptyExtractionStops ==
    (Validated /\ NoExtractableText(uploaded_file)) =>
        /\ ~run.prompt_built
        /\ prompt = <<>>
        /\ run.provider_calls = 0
        /\ ~run.stored
        /\ Stored = run.before
        /\ NoTextSignals # {}

\* C15: a validation action calls the provider at most once, and exactly once
\* whenever it gets as far as validate_document; when that call raises, no
\* normalization and no rendering runs, the failure is reported once, and the
\* stored session result is what it was before the action.
C15_ProviderFailureHandling ==
    run.action = "validate" =>
        /\ run.provider_calls \in {0, 1}
        /\ run.prompt_built <=> run.provider_calls = 1
        /\ (run.api_key /\ run.extracted) => run.provider_calls = 1
        /\ (run.provider_calls = 1 /\ validation_results.raised \in ProviderErrors) =>
              /\ ~run.normalized
              /\ ~run.rendered
              /\ raw_response = <<>>
              /\ formatted_output = Pending
              /\ run.errors = << validation_results.raised >>
              /\ ~run.stored
              /\ Stored = run.before

\* the provider call failed while an earlier result was stored, and that
\* result is still there
C15_Witness ==
    /\ run.action = "validate"
    /\ run.provider_calls = 1
    /\ validation_results = Raised("APIConnectionError")
    /\ run.errors = << "APIConnectionError" >>
    /\ Truthy(run.before)
    /\ Stored = run.before

\* the keys of the stored record, in the order of lines 280-286
RecordKeys ==
    << <<"s","t","r","u","c","t","u","r","e","d","_","r","e","s","u","l","t","s">>, <<"f","o","r","m","a","t","t","e","d","_","o","u","t","p","u","t">>, <<"f","i","l","e","_","n","a","m","e">>, <<"r","e","g","u","l","a","t","i","o","n">>,
       <<"t","i","m","e","s","t","a","m","p">> >>

\* a record with all its keys, whose structured result is the whole value
\* validate_document returned for some response (a parsed object or the
\* degraded result), stored with the report rendered from it
CompleteRecord(record) ==
    /\ IsDict(record)
    /\ [i \in 1..Len(record.v) |-> record.v[i][1]] = RecordKeys
    /\ IsDict(Item(record, <<"s","t","r","u","c","t","u","r","e","d","_","r","e","s","u","l","t","s">>))
    /\ \E text \in SessionResponses :
          /\ Returned(Item(record, <<"s","t","r","u","c","t","u","r","e","d","_","r","e","s","u","l","t","s">>)) = ParseResponse(text)
          /\ Returned(Item(record, <<"f","o","r","m","a","t","t","e","d","_","o","u","t","p","u","t">>))
                = format_results_for_display(ParseResponse(text).val)
    /\ Item(record, <<"r","e","g","u","l","a","t","i","o","n">>).v \in SessionRegulations
    /\ Item(record, <<"f","i","l","e","_","n","a","m","e">>).t = "str"
    /\ Item(record, <<"t","i","m","e","s","t","a","m","p">>).t = "str"

\* C16: in every reachable state of a session the stored validation_results
\* is None or a complete record; no validation action that fails (at the API
\* key, at extraction, at the provider call or at rendering) and no "analyze
\* another document" leaves anything else.
C16_AllOrNothing ==
    /\ Stored = PyNone \/ CompleteRecord(Stored)
    /\ (run.action = "validate" /\ ~run.stored) => Stored = run.before
    /\ (run.action = "validate" /\ run.stored) =>
          /\ Item(Stored, <<"s","t","r","u","c","t","u","r","e","d","_","r","e","s","u","l","t","s">>) = validation_results.val
          /\ Item(Stored, <<"f","o","r","m","a","t","t","e","d","_","o","u","t","p","u","t">>) = formatted_output.val
          /\ Item(Stored, <<"r","e","g","u","l","a","t","i","o","n">>) = PyStr(regulation)
    /\ run.action = "analyze_another" => Stored = PyNone

\* a validation failed at rendering (the provider returned a JSON list) while
\* a degraded result of an earlier validation was stored, and that record is
\* still stored whole
C16_Witness ==
    /\ run.action = "validate"
    /\ run.rendered
    /\ ~run.stored
    /\ formatted_output.raised = "AttributeError"
    /\ Truthy(Stored)
    /\ HasKey(Item(Stored, <<"s","t","r","u","c","t","u","r","e","d","_","r","e","s","u","l","t","s">>), <<"r","a","w","_","a","n","a","l","y","s","i","s">>)
    /\ Item(Stored, <<"r","e","g","u","l","a","t","i","o","n">>) # PyStr(regulation)

=============================================================================
